---- MODULE Spec2Model ----
(***************************************************************************)
(* Model of the build-fest RAG chat server:                                 *)
(*   - chunkText             (src/server/rag/utils.js)                     *)
(*   - cosineSimilarity,                                                   *)
(*     searchSimilarChunks   (src/unnamed/part_000, i.e. rag/search.js)    *)
(*   - handleChat            (src/server/rag/embed.js, i.e. routes/chat.js)*)
(*     with generateEmbedding and generateChatCompletion (rag/ollama.js)   *)
(* Strings are sequences of one-character strings, so that length, slice,  *)
(* split and trim are computed the way the JavaScript code computes them.  *)
(***************************************************************************)
EXTENDS Integers, Sequences, FiniteSets, TLC

VARIABLES
    \* ---- chunkText(text, chunkSize, overlap) ----
    text,           \* argument
    chunkSize,      \* argument
    overlap,        \* argument
    paragraphs,     \* const paragraphs = text.split(/\n\n+/)
    pidx,           \* position of the for..of loop (1-based index of the next paragraph)
    currentChunk,   \* let currentChunk
    chunks,         \* const chunks
    branch,         \* which branch of the loop body ran last
    pc,             \* position inside chunkText
    \* ---- cosineSimilarity(vecA, vecB) ----
    vecA,
    vecB,
    cosOut,         \* outcome of the call
    cpc,            \* position of the cosineSimilarity call
    \* ---- searchSimilarChunks(queryEmbedding, chunks, topK) ----
    queryEmbedding,
    storeChunks,    \* the chunks argument (the loaded snapshot's chunks)
    topK,
    searchOut,      \* outcome of the call
    spc,            \* position of the searchSimilarChunks call
    \* ---- handleChat(req, res) ----
    req,            \* the request: its body and the body's message
    storeFile,      \* vector_store.json on disk
    hpc,            \* position inside handleChat
    vectorStore,    \* const vectorStore
    chatEmbedding,  \* const queryEmbedding
    topChunks,      \* const topChunks
    prompt,         \* systemPrompt and userPrompt
    answer,         \* const answer
    res,            \* the responses sent, in order
    storeLoads,     \* number of times the store file was read
    embedCalls,     \* number of calls of generateEmbedding
    completionCalls,\* number of calls of generateChatCompletion
    failed,         \* the steps that failed, with the cause
    trace,          \* the steps taken, in order
    \* ---- createVectorStore() ----
    kbDir,          \* the knowledgebase directory on disk
    bpc,            \* position inside createVectorStore
    buildNo,        \* number of runs of the script so far
    clock,          \* new Date()
    documents,      \* const documents
    allChunks,      \* let allChunks
    embeddedChunks, \* const embeddedChunks of embedChunks
    fileAtStart,    \* vector_store.json as it was when the run started
    builds,         \* how each run ended, and the file it left
    \* ---- App (the chat page) ----
    messages,       \* useState([]): the bubbles shown
    input,          \* useState(''): the text of the textarea
    loading,        \* useState(false)
    serverStatus,   \* useState(null)
    view,           \* the state the committed render and its handlers closed over
    calls           \* the calls of sendChatMessage, in order

chunkVars  == <<text, chunkSize, overlap, paragraphs, pidx, currentChunk, chunks, branch, pc>>
cosVars    == <<vecA, vecB, cosOut, cpc>>
searchVars == <<queryEmbedding, storeChunks, topK, searchOut, spc>>
chatVars   == <<req, storeFile, hpc, vectorStore, chatEmbedding, topChunks, prompt,
                answer, res, storeLoads, embedCalls, completionCalls, failed, trace>>
buildVars  == <<kbDir, bpc, buildNo, clock, documents, allChunks, embeddedChunks,
                fileAtStart, builds>>
uiVars     == <<messages, input, loading, serverStatus, view, calls>>
vars       == <<chunkVars, cosVars, searchVars, chatVars, buildVars, uiVars>>

----------------------------------------------------------------------------
(* Bounds of the model and program constants *)

MaxTextLen == 6

MaxChunkSize == 3

MaxOverlap == 2

DefaultChunkSize == 2000

DefaultOverlap == 200

NL == "\n"

SP == " "

\* characters a text is made of: two letters, a space and a newline
Alphabet == {"a", "b", SP, NL}

Texts == UNION {[1..n -> Alphabet] : n \in 0..MaxTextLen}

\* (chunkSize, overlap) pairs tried: all small ones, and the defaults
ChunkParams ==
    ((1..MaxChunkSize) \X (0..MaxOverlap)) \cup {<<DefaultChunkSize, DefaultOverlap>>}

----------------------------------------------------------------------------
(* JavaScript string primitives *)

Max(a, b) == IF a >= b THEN a ELSE b

Min(a, b) == IF a <= b THEN a ELSE b

\* String.prototype.trim strips white space and line terminators at both ends
IsWhitespace(c) == c \in {SP, NL}

RECURSIVE TrimStart(_)
TrimStart(s) ==
    IF s = <<>> THEN <<>>
    ELSE IF IsWhitespace(Head(s)) THEN TrimStart(Tail(s)) ELSE s

RECURSIVE TrimEnd(_)
TrimEnd(s) ==
    IF s = <<>> THEN <<>>
    ELSE IF IsWhitespace(s[Len(s)]) THEN TrimEnd(SubSeq(s, 1, Len(s) - 1)) ELSE s

Trim(s) == TrimEnd(TrimStart(s))

\* String.prototype.slice(start) with one argument: a negative start counts
\* from the end, and -0 is 0
Slice(s, start) ==
    LET from == IF start < 0 THEN Max(Len(s) + start, 0) ELSE Min(start, Len(s))
    IN  SubSeq(s, from + 1, Len(s))

\* end of the run of newlines that starts at i: the first index past it
RECURSIVE RunEnd(_, _)
RunEnd(s, i) ==
    IF i <= Len(s) /\ s[i] = NL THEN RunEnd(s, i + 1) ELSE i

\* the first index from i on at which two newlines stand side by side, and
\* Len(s) + 1 when there is none
NextRun(s, i) ==
    LET starts == {k \in i..(Len(s) - 1) : s[k] = NL /\ s[k + 1] = NL}
    IN  IF starts = {} THEN Len(s) + 1
        ELSE CHOOSE k \in starts : \A m \in starts : k <= m

\* text.split(/\n\n+/): every maximal run of two or more newlines separates;
\* a text without such a run (the empty text too) is one paragraph.  One
\* paragraph is cut off at a time, from index i on.
RECURSIVE SplitFrom(_, _, _)
SplitFrom(s, i, acc) ==
    LET r == NextRun(s, i)
    IN  IF r > Len(s) THEN Append(acc, SubSeq(s, i, Len(s)))
        ELSE SplitFrom(s, RunEnd(s, r), Append(acc, SubSeq(s, i, r - 1)))

SplitParagraphs(s) == SplitFrom(s, 1, <<>>)

\* the '\n\n' appended after every paragraph
Separator == <<NL, NL>>

----------------------------------------------------------------------------
(* chunkText *)

\* mutant: off by one, a paragraph that reaches chunkSize exactly is appended
AppendFits_LessEq(cur, paragraph, size) == Len(cur) + Len(paragraph) <= size

\* mutant: the buffer is left out of the test
AppendFits_IgnoresBuffer(cur, paragraph, size) == Len(paragraph) < size

\* mutant: the separator is counted in the test
AppendFits_WithSeparator(cur, paragraph, size) ==
    Len(cur) + Len(paragraph) + 2 < size

\* the condition of the if in the loop body
AppendFits(cur, paragraph, size) == Len(cur) + Len(paragraph) < size

\* mutant: the overlap branch forgets the paragraph
NewChunk_LosesParagraph(cur, paragraph, ovl) ==
    IF Len(cur) > ovl
    THEN Slice(cur, -ovl) \o Separator
    ELSE paragraph \o Separator

\* the buffer a flush starts the next chunk with
NewChunk(cur, paragraph, ovl) ==
    IF Len(cur) > ovl
    THEN Slice(cur, -ovl) \o paragraph \o Separator
    ELSE paragraph \o Separator

\* chunks.push(currentChunk.trim()), guarded by currentChunk.length > 0
PushChunk(out, cur) == IF Len(cur) > 0 THEN Append(out, Trim(cur)) ELSE out

\* the loop of lines 15-31 from paragraph i on, and the push of lines 33-35
RECURSIVE ChunkLoop(_, _, _, _, _, _)
ChunkLoop(ps, i, cur, out, size, ovl) ==
    IF i > Len(ps) THEN PushChunk(out, cur)
    ELSE IF AppendFits(cur, ps[i], size)
         THEN ChunkLoop(ps, i + 1, cur \o ps[i] \o Separator, out, size, ovl)
         ELSE ChunkLoop(ps, i + 1, NewChunk(cur, ps[i], ovl), PushChunk(out, cur), size, ovl)

\* chunkText as a function of its arguments: what the steps below come to
chunkText(t, size, ovl) == ChunkLoop(SplitParagraphs(t), 1, <<>>, <<>>, size, ovl)

ChunkInit ==
    /\ text \in Texts
    /\ \E p \in ChunkParams : chunkSize = p[1] /\ overlap = p[2]
    /\ paragraphs = <<>>
    /\ pidx = 0
    /\ currentChunk = <<>>
    /\ chunks = <<>>
    /\ branch = "none"
    /\ pc = "call"

ChunkIdle ==
    /\ text = <<>>
    /\ chunkSize = DefaultChunkSize
    /\ overlap = DefaultOverlap
    /\ paragraphs = <<>>
    /\ pidx = 0
    /\ currentChunk = <<>>
    /\ chunks = <<>>
    /\ branch = "none"
    /\ pc = "idle"

\* lines 9-13: split into paragraphs, empty buffer
ChunkSplit ==
    /\ pc = "call"
    /\ paragraphs' = SplitParagraphs(text)
    /\ pidx' = 1
    /\ currentChunk' = <<>>
    /\ chunks' = <<>>
    /\ pc' = "loop"
    /\ UNCHANGED <<text, chunkSize, overlap, branch>>

\* lines 16-17: the paragraph is appended to the buffer
ChunkAppend ==
    /\ pc = "loop"
    /\ pidx <= Len(paragraphs)
    /\ AppendFits(currentChunk, paragraphs[pidx], chunkSize)
    /\ currentChunk' = currentChunk \o paragraphs[pidx] \o Separator
    /\ branch' = "append"
    /\ pidx' = pidx + 1
    /\ UNCHANGED <<text, chunkSize, overlap, paragraphs, chunks, pc>>

\* lines 18-29: the buffer is flushed and a new one started
ChunkFlush ==
    /\ pc = "loop"
    /\ pidx <= Len(paragraphs)
    /\ ~AppendFits(currentChunk, paragraphs[pidx], chunkSize)
    /\ chunks' = PushChunk(chunks, currentChunk)
    /\ currentChunk' = NewChunk(currentChunk, paragraphs[pidx], overlap)
    /\ branch' = "flush"
    /\ pidx' = pidx + 1
    /\ UNCHANGED <<text, chunkSize, overlap, paragraphs, pc>>

\* lines 32-37: the last chunk, return
ChunkFinish ==
    /\ pc = "loop"
    /\ pidx > Len(paragraphs)
    /\ chunks' = PushChunk(chunks, currentChunk)
    /\ branch' = "finish"
    /\ pc' = "done"
    /\ UNCHANGED <<text, chunkSize, overlap, paragraphs, pidx, currentChunk>>

CosIdle ==
    /\ vecA = <<>>
    /\ vecB = <<>>
    /\ cosOut = [threw |-> FALSE]
    /\ cpc = "idle"

SearchIdle ==
    /\ queryEmbedding = <<>>
    /\ storeChunks = <<>>
    /\ topK = 0
    /\ searchOut = [threw |-> FALSE]
    /\ spc = "idle"

ChatIdle ==
    /\ req = [hasBody |-> FALSE]
    /\ storeFile = [state |-> "missing"]
    /\ hpc = "idle"
    /\ vectorStore = <<>>
    /\ chatEmbedding = <<>>
    /\ topChunks = <<>>
    /\ prompt = <<>>
    /\ answer = ""
    /\ res = <<>>
    /\ storeLoads = 0
    /\ embedCalls = 0
    /\ completionCalls = 0
    /\ failed = <<>>
    /\ trace = <<>>

BuildIdle ==
    /\ kbDir = [exists |-> FALSE, files |-> <<>>]
    /\ bpc = "idle"
    /\ buildNo = 0
    /\ clock = 0
    /\ documents = <<>>
    /\ allChunks = <<>>
    /\ embeddedChunks = <<>>
    /\ fileAtStart = [state |-> "missing", chunks |-> <<>>]
    /\ builds = <<>>

UiIdle ==
    /\ messages = <<>>
    /\ input = <<>>
    /\ loading = FALSE
    /\ serverStatus = "null"
    /\ view = [input |-> <<>>, loading |-> FALSE]
    /\ calls = <<>>

ChunkNext ==
    \/ ChunkSplit /\ UNCHANGED <<cosVars, searchVars, chatVars, buildVars, uiVars>>
    \/ ChunkAppend /\ UNCHANGED <<cosVars, searchVars, chatVars, buildVars, uiVars>>
    \/ ChunkFlush /\ UNCHANGED <<cosVars, searchVars, chatVars, buildVars, uiVars>>
    \/ ChunkFinish /\ UNCHANGED <<cosVars, searchVars, chatVars, buildVars, uiVars>>

InitChunk == ChunkInit /\ CosIdle /\ SearchIdle /\ ChatIdle /\ BuildIdle /\ UiIdle

SpecChunk == InitChunk /\ [][ChunkNext]_vars

----------------------------------------------------------------------------
(* cosineSimilarity *)

\* vectors the similarity is tried on; <<1>>, <<>> and <<1, 1, 1>> differ in
\* length from the two-dimensional ones
EmbeddingPool ==
    {<<1, 0>>, <<0, 1>>, <<1, 1>>, <<-1, 0>>, <<2, 0>>, <<0, 0>>, <<1>>}

CosineVectors == EmbeddingPool \cup {<<>>, <<0>>, <<1, 2>>, <<1, 1, 1>>}

----------------------------------------------------------------------------
(* Natural numbers of any size: the limbs in base 2^15, the least significant *)
(* first, no zero limb at the top.  They carry the 53-bit significands of     *)
(* JavaScript's numbers and the products and quotients on the way to them.    *)

Base == 2^15

RECURSIVE BigNorm(_)
BigNorm(x) ==
    IF x # <<>> /\ x[Len(x)] = 0 THEN BigNorm(SubSeq(x, 1, Len(x) - 1)) ELSE x

RECURSIVE BigOfInt(_)
BigOfInt(n) == IF n = 0 THEN <<>> ELSE <<n % Base>> \o BigOfInt(n \div Base)

Limb(x, i) == IF i <= Len(x) THEN x[i] ELSE 0

RECURSIVE AddFrom(_, _, _, _)
AddFrom(x, y, i, carry) ==
    IF i > Len(x) /\ i > Len(y)
    THEN IF carry = 0 THEN <<>> ELSE <<carry>>
    ELSE LET t == Limb(x, i) + Limb(y, i) + carry
         IN  <<t % Base>> \o AddFrom(x, y, i + 1, t \div Base)

BigAdd(x, y) == AddFrom(x, y, 1, 0)

\* x - y for x >= y
RECURSIVE SubFrom(_, _, _, _)
SubFrom(x, y, i, borrow) ==
    IF i > Len(x) THEN <<>>
    ELSE LET d == x[i] - Limb(y, i) - borrow
         IN  <<(d + Base) % Base>> \o SubFrom(x, y, i + 1, IF d < 0 THEN 1 ELSE 0)

BigSub(x, y) == BigNorm(SubFrom(x, y, 1, 0))

RECURSIVE CmpFrom(_, _, _)
CmpFrom(x, y, i) ==
    IF i = 0 THEN 0
    ELSE IF x[i] # y[i] THEN (IF x[i] < y[i] THEN -1 ELSE 1)
    ELSE CmpFrom(x, y, i - 1)

\* -1, 0 or 1 as x is below, equal to or above y
BigCmp(x, y) ==
    IF Len(x) # Len(y) THEN (IF Len(x) < Len(y) THEN -1 ELSE 1)
    ELSE CmpFrom(x, y, Len(x))

RECURSIVE MulSmallFrom(_, _, _, _)
MulSmallFrom(x, k, i, carry) ==
    IF i > Len(x)
    THEN IF carry = 0 THEN <<>> ELSE <<carry>>
    ELSE LET t == x[i] * k + carry
         IN  <<t % Base>> \o MulSmallFrom(x, k, i + 1, t \div Base)

\* x * k for a limb k
BigMulSmall(x, k) == IF k = 0 THEN <<>> ELSE MulSmallFrom(x, k, 1, 0)

ShiftLimbs(x, n) == IF x = <<>> THEN <<>> ELSE [i \in 1..n |-> 0] \o x

RECURSIVE MulFrom(_, _, _)
MulFrom(x, y, i) ==
    IF i > Len(y) THEN <<>>
    ELSE BigAdd(ShiftLimbs(BigMulSmall(x, y[i]), i - 1), MulFrom(x, y, i + 1))

BigMul(x, y) == MulFrom(x, y, 1)

\* x * 2^bits
BigShl(x, bits) == ShiftLimbs(BigMulSmall(x, 2^(bits % 15)), bits \div 15)

\* x div 2^bits
BigShr(x, bits) ==
    LET a == bits \div 15
        b == bits % 15
        n == Len(x) - a
    IN  IF n <= 0 THEN <<>>
        ELSE BigNorm([i \in 1..n |->
                         (x[i + a] \div 2^b) + (Limb(x, i + a + 1) % 2^b) * 2^(15 - b)])

RECURSIVE BitLenSmall(_)
BitLenSmall(n) == IF n = 0 THEN 0 ELSE 1 + BitLenSmall(n \div 2)

BigBitLen(x) == IF x = <<>> THEN 0 ELSE 15 * (Len(x) - 1) + BitLenSmall(x[Len(x)])

\* bit i of x, bit 0 the lowest
BigBit(x, i) == (Limb(x, i \div 15 + 1) \div 2^(i % 15)) % 2

\* the lowest `bits` bits of x are zero
LowBitsZero(x, bits) == BigShl(BigShr(x, bits), bits) = x

\* The integer part of the square root of n, one bit at a time from bit hi
\* down to bit lo of the root.  The range is halved, and the upper half is
\* evaluated (its length asked for) before the lower half starts, to keep the
\* nesting of the evaluation shallow.
RECURSIVE SqrtBits(_, _, _, _)
SqrtBits(n, r, hi, lo) ==
    IF hi < lo THEN r
    ELSE IF hi = lo
    THEN LET c == BigAdd(r, BigShl(<<1>>, hi))
         IN  IF BigCmp(BigMul(c, c), n) <= 0 THEN c ELSE r
    ELSE LET mid  == (hi + lo) \div 2
             high == SqrtBits(n, r, hi, mid + 1)
         IN  IF Len(high) >= 0 THEN SqrtBits(n, high, mid, lo) ELSE <<>>

BigSqrt(n) == SqrtBits(n, <<>>, BigBitLen(n) \div 2, 0)

\* Long division of n by d, one bit at a time from bit hi down to bit lo of n;
\* qr is the quotient and the remainder so far.
RECURSIVE DivBits(_, _, _, _, _)
DivBits(n, d, qr, hi, lo) ==
    IF hi < lo THEN qr
    ELSE IF hi = lo
    THEN LET r2 == BigAdd(BigAdd(qr.rem, qr.rem),
                          IF BigBit(n, hi) = 1 THEN <<1>> ELSE <<>>)
             q2 == BigAdd(qr.quot, qr.quot)
         IN  IF BigCmp(r2, d) >= 0
             THEN [quot |-> BigAdd(q2, <<1>>), rem |-> BigSub(r2, d)]
             ELSE [quot |-> q2, rem |-> r2]
    ELSE LET mid  == (hi + lo) \div 2
             high == DivBits(n, d, qr, hi, mid + 1)
         IN  IF Len(high.rem) >= 0 THEN DivBits(n, d, high, mid, lo) ELSE qr

BigDivMod(n, d) ==
    DivBits(n, d, [quot |-> <<>>, rem |-> <<>>], BigBitLen(n) - 1, 0)

----------------------------------------------------------------------------
(* JavaScript numbers: IEEE 754 binary64, round to nearest, ties to even.   *)
(* A number is sign * mant * 2^exp with a significand of exactly            *)
(* MantissaBits bits, or zero; so two numbers are equal exactly when their   *)
(* records are.  The vectors of the model have small integer components: the *)
(* sums of lines 19-21 are exact, and Math.sqrt, the product of the norms    *)
(* and the division round.                                                   *)

MantissaBits == 53

Sign(n) == IF n > 0 THEN 1 ELSE IF n < 0 THEN -1 ELSE 0

Abs(n) == IF n < 0 THEN -n ELSE n

Zero == [sign |-> 0, mant |-> <<>>, exp |-> 0]

One == [sign |-> 1, mant |-> BigShl(<<1>>, MantissaBits - 1), exp |-> 1 - MantissaBits]

\* the number nearest to n * 2^e, n > 0
RoundNearestEven(n, e) ==
    LET len == BigBitLen(n)
    IN  IF len <= MantissaBits
        THEN [mant |-> BigShl(n, MantissaBits - len), exp |-> e - (MantissaBits - len)]
        ELSE LET s  == len - MantissaBits
                 q  == BigShr(n, s)
                 up == /\ BigBit(n, s - 1) = 1
                       /\ (~LowBitsZero(n, s - 1) \/ BigBit(q, 0) = 1)
                 q1 == IF up THEN BigAdd(q, <<1>>) ELSE q
             IN  IF BigBitLen(q1) > MantissaBits
                 THEN [mant |-> BigShr(q1, 1), exp |-> e + s + 1]
                 ELSE [mant |-> q1, exp |-> e + s]

\* 2x, plus a last bit that says that something below was cut off
WithSticky(x, inexact) ==
    IF inexact THEN BigAdd(BigAdd(x, x), <<1>>) ELSE BigAdd(x, x)

Signed(sgn, v) == [sign |-> sgn, mant |-> v.mant, exp |-> v.exp]

\* Math.sqrt(n) for an integer n >= 0
MathSqrt(n) ==
    IF n = 0 THEN Zero
    ELSE LET big == BigShl(BigOfInt(n), 2 * (MantissaBits + 2))
             r   == BigSqrt(big)
         IN  Signed(1, RoundNearestEven(WithSticky(r, BigMul(r, r) # big),
                                        -(MantissaBits + 3)))

\* x * y
FloatMul(x, y) ==
    IF x.sign = 0 \/ y.sign = 0 THEN Zero
    ELSE Signed(x.sign * y.sign,
                RoundNearestEven(BigMul(x.mant, y.mant), x.exp + y.exp))

\* d / y for an integer d and a number y # 0
FloatDiv(d, y) ==
    IF d = 0 THEN Zero
    ELSE LET k  == 2 * MantissaBits + 2
             dm == BigDivMod(BigShl(BigOfInt(Abs(d)), k), y.mant)
         IN  Signed(Sign(d) * y.sign,
                    RoundNearestEven(WithSticky(dm.quot, dm.rem # <<>>),
                                     -k - y.exp - 1))

\* x < y for two numbers of the same sign, as magnitudes
MagLess(x, y) ==
    \/ x.exp < y.exp
    \/ x.exp = y.exp /\ BigCmp(x.mant, y.mant) < 0

\* x < y
SimLess(x, y) ==
    IF x.sign # y.sign THEN x.sign < y.sign
    ELSE IF x.sign = 0 THEN FALSE
    ELSE IF x.sign > 0 THEN MagLess(x, y)
    ELSE MagLess(y, x)

\* the for loop of lines 18-22: the sum of a[i] * b[i]
RECURSIVE DotFrom(_, _, _)
DotFrom(a, b, i) ==
    IF i > Len(a) THEN 0 ELSE a[i] * b[i] + DotFrom(a, b, i + 1)

Thrown(msg) == [threw |-> TRUE, message |-> msg]

Returned(v) == [threw |-> FALSE, value |-> v]

\* mutant: only a shorter first vector is rejected
cosineSimilarity_ChecksShorterOnly(a, b) ==
    IF Len(a) < Len(b)
    THEN Thrown("Vectors must have the same length")
    ELSE LET c == SubSeq(a, 1, Len(b))
             normA == MathSqrt(DotFrom(c, c, 1))
             normB == MathSqrt(DotFrom(b, b, 1))
         IN  IF normA = Zero \/ normB = Zero
             THEN Returned(Zero)
             ELSE Returned(FloatDiv(DotFrom(c, b, 1), FloatMul(normA, normB)))

\* 0 / 0: not a number, equal to no value the function can return
NotANumber == [sign |-> 0, mant |-> <<>>, exp |-> 1]

\* the integer n as a number
FloatOfInt(n) ==
    IF n = 0 THEN Zero ELSE Signed(Sign(n), RoundNearestEven(BigOfInt(Abs(n)), 0))

\* mutant: the guard of lines 27-29 is left out, a zero vector divides 0 by 0
cosineSimilarity_NoZeroGuard(a, b) ==
    IF Len(a) # Len(b)
    THEN Thrown("Vectors must have the same length")
    ELSE LET dotProduct == DotFrom(a, b, 1)
             normA == MathSqrt(DotFrom(a, a, 1))
             normB == MathSqrt(DotFrom(b, b, 1))
         IN  IF normA = Zero \/ normB = Zero
             THEN Returned(NotANumber)
             ELSE Returned(FloatDiv(dotProduct, FloatMul(normA, normB)))

\* mutant: the dot product is divided by the first vector's norm, squared
cosineSimilarity_DividesByNormAOnly(a, b) ==
    IF Len(a) # Len(b)
    THEN Thrown("Vectors must have the same length")
    ELSE LET dotProduct == DotFrom(a, b, 1)
             normA == MathSqrt(DotFrom(a, a, 1))
             normB == MathSqrt(DotFrom(b, b, 1))
         IN  IF normA = Zero \/ normB = Zero
             THEN Returned(Zero)
             ELSE Returned(FloatDiv(dotProduct, FloatMul(normA, normA)))

\* mutant: the square roots of lines 24-25 are left out
cosineSimilarity_NoSqrt(a, b) ==
    IF Len(a) # Len(b)
    THEN Thrown("Vectors must have the same length")
    ELSE LET dotProduct == DotFrom(a, b, 1)
             normA == FloatOfInt(DotFrom(a, a, 1))
             normB == FloatOfInt(DotFrom(b, b, 1))
         IN  IF normA = Zero \/ normB = Zero
             THEN Returned(Zero)
             ELSE Returned(FloatDiv(dotProduct, FloatMul(normA, normB)))

cosineSimilarity(a, b) ==
    IF Len(a) # Len(b)
    THEN Thrown("Vectors must have the same length")
    ELSE LET dotProduct == DotFrom(a, b, 1)
             normA == MathSqrt(DotFrom(a, a, 1))
             normB == MathSqrt(DotFrom(b, b, 1))
         IN  IF normA = Zero \/ normB = Zero
             THEN Returned(Zero)
             ELSE Returned(FloatDiv(dotProduct, FloatMul(normA, normB)))

CosInit ==
    /\ vecA \in CosineVectors
    /\ vecB \in CosineVectors
    /\ cosOut = [threw |-> FALSE]
    /\ cpc = "call"

CosineCall ==
    /\ cpc = "call"
    /\ cosOut' = cosineSimilarity(vecA, vecB)
    /\ cpc' = IF cosOut'.threw THEN "threw" ELSE "returned"
    /\ UNCHANGED <<vecA, vecB>>

CosNext == CosineCall /\ UNCHANGED <<chunkVars, searchVars, chatVars, buildVars, uiVars>>

InitCosine == ChunkIdle /\ CosInit /\ SearchIdle /\ ChatIdle /\ BuildIdle /\ UiIdle

SpecCosine == InitCosine /\ [][CosNext]_vars

----------------------------------------------------------------------------
(* searchSimilarChunks *)

MaxChunks == 4

MaxTopK == 4

QueryPool == {<<1, 0>>, <<1, 1>>, <<0, 0>>, <<1>>}

\* a stored record: the chunk's text, its file, its index in the file, its embedding
StoredChunk(i, e) ==
    [text |-> <<"a">>, filename |-> "doc.md", chunkIndex |-> i - 1, embedding |-> e]

Stores ==
    UNION {{[i \in 1..n |-> StoredChunk(i, es[i])] : es \in [1..n -> EmbeddingPool]}
              : n \in 0..MaxChunks}

\* cosineSimilarity on every pair of vectors a search can meet, computed once
SimilarityTable ==
    {<<a, b, cosineSimilarity(a, b)>> : a \in QueryPool, b \in EmbeddingPool}

\* the call cosineSimilarity(a, b) of line 45, read from the table
Similarity(a, b) ==
    (CHOOSE t \in SimilarityTable : t[1] = a /\ t[2] = b)[3]

\* {...chunk, similarity}
Scored(chunk, sim) ==
    [text |-> chunk.text, filename |-> chunk.filename,
     chunkIndex |-> chunk.chunkIndex, embedding |-> chunk.embedding,
     similarity |-> sim]

\* mutant: a chunk whose embedding has another length is skipped
RECURSIVE MapSimilarity_SkipsMismatch(_, _, _, _)
MapSimilarity_SkipsMismatch(q, cs, i, acc) ==
    IF i > Len(cs) THEN Returned(acc)
    ELSE LET sim == Similarity(q, cs[i].embedding)
         IN  IF sim.threw
             THEN MapSimilarity_SkipsMismatch(q, cs, i + 1, acc)
             ELSE MapSimilarity_SkipsMismatch(q, cs, i + 1,
                                              Append(acc, Scored(cs[i], sim.value)))

\* chunks.map(...): the chunks in order, the first throw ends the map
RECURSIVE MapSimilarity(_, _, _, _)
MapSimilarity(q, cs, i, acc) ==
    IF i > Len(cs) THEN Returned(acc)
    ELSE LET sim == Similarity(q, cs[i].embedding)
         IN  IF sim.threw
             THEN sim
             ELSE MapSimilarity(q, cs, i + 1, Append(acc, Scored(cs[i], sim.value)))

\* the comparator (a, b) => b.similarity - a.similarity is positive: b goes first
GoesBefore(b, a) == SimLess(a.similarity, b.similarity)

\* mutant: an element is put in front of the elements it ties with
RECURSIVE InsertSorted_BeforeTies(_, _)
InsertSorted_BeforeTies(sorted, x) ==
    IF sorted = <<>> THEN <<x>>
    ELSE IF SimLess(x.similarity, Head(sorted).similarity)
         THEN <<Head(sorted)>> \o InsertSorted_BeforeTies(Tail(sorted), x)
         ELSE <<x>> \o sorted

\* x is put behind every element that does not have to go behind it
RECURSIVE InsertSorted(_, _)
InsertSorted(sorted, x) ==
    IF sorted = <<>> THEN <<x>>
    ELSE IF GoesBefore(x, Head(sorted))
         THEN <<x>> \o sorted
         ELSE <<Head(sorted)>> \o InsertSorted(Tail(sorted), x)

\* results.sort(comparator): Array.prototype.sort is stable
RECURSIVE SortFrom(_, _, _)
SortFrom(rs, i, acc) ==
    IF i > Len(rs) THEN acc ELSE SortFrom(rs, i + 1, InsertSorted(acc, rs[i]))

SortDescending(rs) == SortFrom(rs, 1, <<>>)

\* mutant: one element too many
SliceTo_OneMore(s, end) == SubSeq(s, 1, Min(end + 1, Len(s)))

\* Array.prototype.slice(0, end): a negative end counts from the end
SliceTo(s, end) ==
    LET to == IF end < 0 THEN Max(Len(s) + end, 0) ELSE Min(end, Len(s))
    IN  SubSeq(s, 1, to)

searchSimilarChunks(q, cs, k) ==
    LET results == MapSimilarity(q, cs, 1, <<>>)
    IN  IF results.threw
        THEN results
        ELSE Returned(SliceTo(SortDescending(results.value), k))

SearchInit ==
    /\ queryEmbedding \in QueryPool
    /\ storeChunks \in Stores
    /\ topK \in 0..MaxTopK
    /\ searchOut = [threw |-> FALSE]
    /\ spc = "call"

SearchCall ==
    /\ spc = "call"
    /\ searchOut' = searchSimilarChunks(queryEmbedding, storeChunks, topK)
    /\ spc' = IF searchOut'.threw THEN "threw" ELSE "returned"
    /\ UNCHANGED <<queryEmbedding, storeChunks, topK>>

SearchNext == SearchCall /\ UNCHANGED <<chunkVars, cosVars, chatVars, buildVars, uiVars>>

InitSearch == ChunkIdle /\ CosIdle /\ SearchInit /\ ChatIdle /\ BuildIdle /\ UiIdle

SpecSearch == InitSearch /\ [][SearchNext]_vars

----------------------------------------------------------------------------
(* handleChat (POST /chat): the request, the store file, the Ollama client *)

\* searchSimilarChunks(queryEmbedding, vectorStore.chunks, 5)
ChatTopK == 5

\* chunk.text.substring(0, 150)
PreviewLen == 150

\* chunk.similarity.toFixed(4)
FixedDigits == 4

\* process.env.OLLAMA_MODEL || 'llama3'
OllamaModel == "llama3"

\* process.env.OLLAMA_HOST || 'http://localhost:11434'
OllamaHost == "http://localhost:11434"

\* a value of req.body.message: its type, its characters when it is a string,
\* its value when it is a number
Message(type, chars, num) == [type |-> type, chars |-> chars, num |-> num]

Undefined == Message("undefined", <<>>, 0)

Messages ==
    {Undefined, Message("null", <<>>, 0), Message("object", <<>>, 0),
     Message("number", <<>>, 0), Message("number", <<>>, 7)}
    \cup {Message("string", c, 0) :
             c \in {<<>>, <<SP>>, <<NL, SP>>, <<"a">>, <<SP, "a", NL>>}}

\* the requests handleChat is called with: req.body undefined (no body was
\* parsed), or an object with or without a message
Requests ==
    {[hasBody |-> FALSE, message |-> Undefined]}
    \cup {[hasBody |-> TRUE, message |-> m] : m \in Messages}

\* ToBoolean(message)
Truthy(m) ==
    CASE m.type = "string" -> Len(m.chars) > 0
      [] m.type = "number" -> m.num # 0
      [] m.type = "object" -> TRUE
      [] OTHER -> FALSE

\* mutant: the message is not trimmed before its length is tested
IsMissing_NoTrim(m) ==
    IF ~Truthy(m) THEN Returned(TRUE)
    ELSE IF m.type # "string" THEN Thrown("message.trim is not a function")
    ELSE Returned(Len(m.chars) = 0)

\* line 167: !message || message.trim().length === 0; only a string has trim
IsMissing(m) ==
    IF ~Truthy(m) THEN Returned(TRUE)
    ELSE IF m.type # "string" THEN Thrown("message.trim is not a function")
    ELSE Returned(Len(Trim(m.chars)) = 0)

\* a text of n characters
Filled(n) == [i \in 1..n |-> IF i % 2 = 1 THEN "a" ELSE "b"]

ChatChunk(i, f, t, e) == [text |-> t, filename |-> f, chunkIndex |-> i, embedding |-> e]

FileA == <<"a", ".", "m", "d">>

FileB == <<"b", ".", "m", "d">>

\* six chunks of two files: texts shorter than, as long as and longer than a
\* preview; two chunks tie for a query along <<1, 0>>
FullStore ==
    <<ChatChunk(0, FileA, <<"a", "b">>, <<0, 1>>),
      ChatChunk(1, FileA, Filled(PreviewLen + 1), <<1, 1>>),
      ChatChunk(0, FileB, Filled(PreviewLen), <<1, 0>>),
      ChatChunk(1, FileB, <<"b">>, <<2, 0>>),
      ChatChunk(2, FileB, Filled(PreviewLen + 2), <<-1, 0>>),
      ChatChunk(3, FileB, <<"a", NL, "b">>, <<0, 0>>)>>

\* the chunk lists a store file can hold: none, fewer than, and more than
\* ChatTopK chunks, and a store made with an embedding model of another dimension
ChatStores ==
    {SubSeq(FullStore, 1, n) : n \in {0, 1, 3, Len(FullStore)}}
    \cup {<<ChatChunk(0, FileA, <<"a">>, <<1>>)>>}

\* vector_store.json: not there, not JSON, JSON without chunks, or a snapshot
StoreFiles ==
    {[state |-> s, chunks |-> <<>>] : s \in {"missing", "corrupt", "noChunks"}}
    \cup {[state |-> "valid", chunks |-> c] : c \in ChatStores}

\* mutant: a missing file is read as an empty store
loadVectorStore_EmptyWhenMissing(f) ==
    IF f.state = "corrupt" THEN Thrown("Unexpected end of JSON input")
    ELSE Returned([hasChunks |-> f.state # "noChunks", chunks |-> f.chunks])

\* lines 152-158: existsSync, readFileSync, JSON.parse
loadVectorStore(f) ==
    IF f.state = "missing"
    THEN Thrown("Vector store not found. Please run \"npm run embed\" first.")
    ELSE IF f.state = "corrupt" THEN Thrown("Unexpected end of JSON input")
    ELSE Returned([hasChunks |-> f.state = "valid", chunks |-> f.chunks])

\* an error caught in the Ollama client: its name, its message, the code of
\* the error or of its cause, and the words of interest its message includes
FetchError(name, message, code, mentions) ==
    [name |-> name, message |-> message, code |-> code, mentions |-> mentions]

NoError == FetchError("", "", "", {})

\* fetch rejected: nothing listens at the host
Refused == FetchError("TypeError", "fetch failed", "ECONNREFUSED", {"fetch"})

\* !response.ok
ServerError == FetchError("Error", "Ollama API error: 500 Internal Server Error", "", {})

\* !response.ok, the body of the reply names a network error
GatewayTimeout ==
    FetchError("Error", "Ollama API error: 504 Gateway Timeout - ETIMEDOUT", "",
               {"ETIMEDOUT"})

\* response.json() rejected
BadJson == FetchError("SyntaxError", "Unexpected end of JSON input", "", {})

\* the reply has no embeddings
BadFormat ==
    FetchError("Error", "Unexpected response format from Ollama embedding API", "", {})

\* ollama.js lines 94-116
isConnectionError(e) ==
    \/ e.code = "ECONNREFUSED"
    \/ e.name = "TypeError" /\ "fetch" \in e.mentions
    \/ e.mentions \cap {"ENOTFOUND", "ETIMEDOUT", "ECONNRESET", "EHOSTUNREACH"} # {}

\* ollama.js line 129
ConnectMessage ==
    "Cannot connect to Ollama service at " \o OllamaHost \o ". Is Ollama running?"

\* mutant: only the prefix is thrown, the cause is dropped
FailureMessage_DropsCause(prefix, e) ==
    IF isConnectionError(e) THEN ConnectMessage ELSE prefix

\* the catch blocks of ollama.js lines 174-193 and 232-240
FailureMessage(prefix, e) ==
    IF isConnectionError(e) THEN ConnectMessage ELSE prefix \o e.message

\* what the POST to /api/embed can come to
EmbedReplies ==
    {[ok |-> TRUE, embedding |-> v, error |-> NoError] : v \in {<<1, 0>>, <<1, 1>>, <<1>>}}
    \cup {[ok |-> FALSE, embedding |-> <<>>, error |-> e] :
             e \in {Refused, ServerError, GatewayTimeout, BadJson, BadFormat}}

\* what the POST to /api/chat can come to
ChatReplies ==
    {[ok |-> TRUE, content |-> "An answer.", error |-> NoError]}
    \cup {[ok |-> FALSE, content |-> "", error |-> e] :
             e \in {Refused, ServerError, GatewayTimeout, BadJson}}

\* ollama.js lines 146-194, given what the request came to
generateEmbedding(reply) ==
    IF reply.ok THEN Returned(reply.embedding)
    ELSE Thrown(FailureMessage("Failed to generate embedding: ", reply.error))

\* mutant: a failed completion is answered with an empty text
generateChatCompletion_SwallowsFailure(reply) ==
    IF reply.ok THEN Returned(reply.content) ELSE Returned("")

\* ollama.js lines 203-241, given what the request came to
generateChatCompletion(reply) ==
    IF reply.ok THEN Returned(reply.content)
    ELSE Thrown(FailureMessage("Failed to generate chat completion: ", reply.error))

\* the value of a natural number kept as limbs
RECURSIVE BigToInt(_)
BigToInt(x) == IF x = <<>> THEN 0 ELSE Head(x) + Base * BigToInt(Tail(x))

Digit(d) == <<"0", "1", "2", "3", "4", "5", "6", "7", "8", "9">>[d + 1]

\* the decimal digits of a natural number: String(n)
RECURSIVE DecimalDigits(_)
DecimalDigits(n) ==
    IF n < 10 THEN <<Digit(n)>> ELSE DecimalDigits(n \div 10) \o <<Digit(n % 10)>>

\* zeros in front, up to n characters
RECURSIVE PadStart(_, _)
PadStart(s, n) == IF Len(s) >= n THEN s ELSE PadStart(<<"0">> \o s, n)

\* Number.prototype.toFixed(f), f > 0: the integer n nearest to |x| * 10^f, the
\* larger one of two equally near; its digits with a point before the last f
ToFixed(x, f) ==
    LET scaled == BigMul(x.mant, BigOfInt(10^f))
        n == IF x.sign = 0 THEN 0
             ELSE IF x.exp >= 0 THEN BigToInt(BigShl(scaled, x.exp))
             ELSE BigToInt(BigShr(BigAdd(scaled, BigShl(<<1>>, -x.exp - 1)), -x.exp))
        digits == PadStart(DecimalDigits(n), f + 1)
        whole == Len(digits) - f
    IN  (IF x.sign < 0 THEN <<"-">> ELSE <<>>)
            \o SubSeq(digits, 1, whole) \o <<".">> \o SubSeq(digits, whole + 1, Len(digits))

\* String.prototype.substring(0, end), end >= 0
Substring(s, end) == SubSeq(s, 1, Min(end, Len(s)))

Ellipsis == <<".", ".", ".">>

\* mutant: the text is not cut
Preview_WholeText(t) == t \o Ellipsis

\* line 219: chunk.text.substring(0, 150) + '...'
Preview(t) == Substring(t, PreviewLen) \o Ellipsis

\* mutant: the sources are numbered from 0
SourceBlock_ZeroBased(idx, chunk) ==
    <<"[", "S", "o", "u", "r", "c", "e", " ">> \o DecimalDigits(idx - 1)
        \o <<" ", "-", " ">> \o chunk.filename \o <<"]", NL>> \o chunk.text

\* line 190: `[Source ${idx + 1} - ${chunk.filename}]\n${chunk.text}`
SourceBlock(idx, chunk) ==
    <<"[", "S", "o", "u", "r", "c", "e", " ">> \o DecimalDigits(idx)
        \o <<" ", "-", " ">> \o chunk.filename \o <<"]", NL>> \o chunk.text

\* line 191: '\n\n---\n\n'
Delimiter == <<NL, NL, "-", "-", "-", NL, NL>>

\* lines 189-191: map and join, from block i on
RECURSIVE JoinBlocks(_, _)
JoinBlocks(cs, i) ==
    IF i > Len(cs) THEN <<>>
    ELSE IF i = Len(cs) THEN SourceBlock(i, cs[i])
    ELSE SourceBlock(i, cs[i]) \o Delimiter \o JoinBlocks(cs, i + 1)

\* lines 194-206: the rules, then the context; the user's message
Prompts(context, message) ==
    [system |-> [rules |-> "answer using ONLY the information in the context",
                 context |-> context],
     user |-> message]

\* lines 216-220: one entry per retrieved chunk, in the same order
Sources(cs) ==
    [i \in 1..Len(cs) |->
        [filename |-> cs[i].filename,
         similarity |-> ToFixed(cs[i].similarity, FixedDigits),
         preview |-> Preview(cs[i].text)]]

\* lines 214-223
SuccessBody(a, cs) ==
    [answer |-> a, sources |-> Sources(cs), using_knowledgebase |-> TRUE,
     model |-> OllamaModel]

\* lines 227-230
FailureBody(msg) == [error |-> "Failed to process chat request", details |-> msg]

Response(status, body) == [status |-> status, body |-> body]

\* a step that failed, and why
Failure(step, e) == [step |-> step, cause |-> e]

\* lines 225-231: the catch block answers 500 with the error's message
Catch(msg) ==
    /\ res' = Append(res, Response(500, FailureBody(msg)))
    /\ hpc' = "done"

ChatInit ==
    /\ req \in Requests
    /\ storeFile \in StoreFiles
    /\ hpc = "validate"
    /\ vectorStore = <<>>
    /\ chatEmbedding = <<>>
    /\ topChunks = <<>>
    /\ prompt = <<>>
    /\ answer = ""
    /\ res = <<>>
    /\ storeLoads = 0
    /\ embedCalls = 0
    /\ completionCalls = 0
    /\ failed = <<>>
    /\ trace = <<>>

\* lines 165-169: the message is taken from the body and tested
ChatValidate ==
    /\ hpc = "validate"
    /\ IF ~req.hasBody
       THEN Catch("Cannot destructure property 'message' of 'req.body' as it is undefined.")
       ELSE LET missing == IsMissing(req.message)
            IN  IF missing.threw THEN Catch(missing.message)
                ELSE IF missing.value
                THEN /\ res' = Append(res, Response(400, [error |-> "Message is required"]))
                     /\ hpc' = "done"
                ELSE /\ hpc' = "load"
                     /\ UNCHANGED res
    /\ UNCHANGED <<req, storeFile, vectorStore, chatEmbedding, topChunks, prompt, answer,
                   storeLoads, embedCalls, completionCalls, failed, trace>>

\* lines 174-175: the store is read from its file, its chunks are counted
ChatLoadStore ==
    /\ hpc = "load"
    /\ storeLoads' = storeLoads + 1
    /\ trace' = Append(trace, "load")
    /\ LET store == loadVectorStore(storeFile)
       IN  IF store.threw
           THEN /\ Catch(store.message)
                /\ failed' = Append(failed, Failure("load", NoError))
                /\ UNCHANGED vectorStore
           ELSE IF ~store.value.hasChunks
           THEN /\ Catch("Cannot read properties of undefined (reading 'length')")
                /\ failed' = Append(failed, Failure("load", NoError))
                /\ UNCHANGED vectorStore
           ELSE /\ vectorStore' = store.value
                /\ hpc' = "embed"
                /\ UNCHANGED <<res, failed>>
    /\ UNCHANGED <<req, storeFile, chatEmbedding, topChunks, prompt, answer,
                   embedCalls, completionCalls>>

\* line 179 and ollama.js line 148: the request to /api/embed is sent
ChatEmbedCall ==
    /\ hpc = "embed"
    /\ embedCalls' = embedCalls + 1
    /\ trace' = Append(trace, "generateEmbedding")
    /\ hpc' = "awaitEmbedding"
    /\ UNCHANGED <<req, storeFile, vectorStore, chatEmbedding, topChunks, prompt, answer,
                   res, storeLoads, completionCalls, failed>>

\* line 179: the awaited call returns the embedding or throws
ChatEmbedReply ==
    /\ hpc = "awaitEmbedding"
    /\ \E reply \in EmbedReplies :
          LET out == generateEmbedding(reply)
          IN  /\ failed' = IF reply.ok THEN failed
                           ELSE Append(failed, Failure("embedding", reply.error))
              /\ IF out.threw
                 THEN /\ Catch(out.message)
                      /\ UNCHANGED <<chatEmbedding, trace>>
                 ELSE /\ chatEmbedding' = out.value
                      /\ trace' = Append(trace, "embedding")
                      /\ hpc' = "search"
                      /\ UNCHANGED res
    /\ UNCHANGED <<req, storeFile, vectorStore, topChunks, prompt, answer,
                   storeLoads, embedCalls, completionCalls>>

\* mutant: the scores are written into the loaded chunks, which are sorted
ChatSearch_SortsStore ==
    /\ hpc = "search"
    /\ trace' = Append(trace, "search")
    /\ LET results == MapSimilarity(chatEmbedding, vectorStore.chunks, 1, <<>>)
       IN  IF results.threw
           THEN /\ Catch(results.message)
                /\ failed' = Append(failed, Failure("search", NoError))
                /\ UNCHANGED <<topChunks, vectorStore>>
           ELSE /\ vectorStore' = [vectorStore EXCEPT !.chunks = SortDescending(results.value)]
                /\ topChunks' = SliceTo(vectorStore'.chunks, ChatTopK)
                /\ hpc' = "prompt"
                /\ UNCHANGED <<res, failed>>
    /\ UNCHANGED <<req, storeFile, chatEmbedding, prompt, answer,
                   storeLoads, embedCalls, completionCalls>>

\* lines 184-186: the ChatTopK most similar chunks
ChatSearch ==
    /\ hpc = "search"
    /\ trace' = Append(trace, "search")
    /\ LET out == searchSimilarChunks(chatEmbedding, vectorStore.chunks, ChatTopK)
       IN  IF out.threw
           THEN /\ Catch(out.message)
                /\ failed' = Append(failed, Failure("search", NoError))
                /\ UNCHANGED topChunks
           ELSE /\ topChunks' = out.value
                /\ hpc' = "prompt"
                /\ UNCHANGED <<res, failed>>
    /\ UNCHANGED <<req, storeFile, vectorStore, chatEmbedding, prompt, answer,
                   storeLoads, embedCalls, completionCalls>>

\* lines 189-206: the context and the two prompts
ChatBuildPrompt ==
    /\ hpc = "prompt"
    /\ prompt' = Prompts(JoinBlocks(topChunks, 1), req.message.chars)
    /\ trace' = Append(trace, "prompt")
    /\ hpc' = "complete"
    /\ UNCHANGED <<req, storeFile, vectorStore, chatEmbedding, topChunks, answer,
                   res, storeLoads, embedCalls, completionCalls, failed>>

\* mutant: the completion is asked for as soon as the embedding is there
ChatCompleteCall_BeforeSearch ==
    /\ hpc \in {"search", "complete"}
    /\ completionCalls' = completionCalls + 1
    /\ trace' = Append(trace, "generateChatCompletion")
    /\ hpc' = "awaitCompletion"
    /\ UNCHANGED <<req, storeFile, vectorStore, chatEmbedding, topChunks, prompt, answer,
                   res, storeLoads, embedCalls, failed>>

\* line 210 and ollama.js line 205: the request to /api/chat is sent
ChatCompleteCall ==
    /\ hpc = "complete"
    /\ completionCalls' = completionCalls + 1
    /\ trace' = Append(trace, "generateChatCompletion")
    /\ hpc' = "awaitCompletion"
    /\ UNCHANGED <<req, storeFile, vectorStore, chatEmbedding, topChunks, prompt, answer,
                   res, storeLoads, embedCalls, failed>>

\* line 210: the awaited call returns the answer or throws
ChatCompleteReply ==
    /\ hpc = "awaitCompletion"
    /\ \E reply \in ChatReplies :
          LET out == generateChatCompletion(reply)
          IN  /\ failed' = IF reply.ok THEN failed
                           ELSE Append(failed, Failure("completion", reply.error))
              /\ IF out.threw
                 THEN /\ Catch(out.message)
                      /\ UNCHANGED <<answer, trace>>
                 ELSE /\ answer' = out.value
                      /\ trace' = Append(trace, "completion")
                      /\ hpc' = "respond"
                      /\ UNCHANGED res
    /\ UNCHANGED <<req, storeFile, vectorStore, chatEmbedding, topChunks, prompt,
                   storeLoads, embedCalls, completionCalls>>

\* lines 214-223: the answer and its sources are sent
ChatRespond ==
    /\ hpc = "respond"
    /\ res' = Append(res, Response(200, SuccessBody(answer, topChunks)))
    /\ trace' = Append(trace, "response")
    /\ hpc' = "done"
    /\ UNCHANGED <<req, storeFile, vectorStore, chatEmbedding, topChunks, prompt, answer,
                   storeLoads, embedCalls, completionCalls, failed>>

ChatNext ==
    \/ ChatValidate /\ UNCHANGED <<chunkVars, cosVars, searchVars, buildVars, uiVars>>
    \/ ChatLoadStore /\ UNCHANGED <<chunkVars, cosVars, searchVars, buildVars, uiVars>>
    \/ ChatEmbedCall /\ UNCHANGED <<chunkVars, cosVars, searchVars, buildVars, uiVars>>
    \/ ChatEmbedReply /\ UNCHANGED <<chunkVars, cosVars, searchVars, buildVars, uiVars>>
    \/ ChatSearch /\ UNCHANGED <<chunkVars, cosVars, searchVars, buildVars, uiVars>>
    \/ ChatBuildPrompt /\ UNCHANGED <<chunkVars, cosVars, searchVars, buildVars, uiVars>>
    \/ ChatCompleteCall /\ UNCHANGED <<chunkVars, cosVars, searchVars, buildVars, uiVars>>
    \/ ChatCompleteReply /\ UNCHANGED <<chunkVars, cosVars, searchVars, buildVars, uiVars>>
    \/ ChatRespond /\ UNCHANGED <<chunkVars, cosVars, searchVars, buildVars, uiVars>>

InitChat == ChunkIdle /\ CosIdle /\ SearchIdle /\ ChatInit /\ BuildIdle /\ UiIdle

SpecChat == InitChat /\ [][ChatNext]_vars

----------------------------------------------------------------------------
(* createVectorStore: the build script (npm run embed) *)

\* runs of the script in one behaviour
MaxBuilds == 2

\* process.env.OLLAMA_EMBEDDING_MODEL || 'nomic-embed-text'
EmbeddingModel == "nomic-embed-text"

\* String.prototype.endsWith
EndsWith(s, suffix) ==
    /\ Len(s) >= Len(suffix)
    /\ SubSeq(s, Len(s) - Len(suffix) + 1, Len(s)) = suffix

\* a file of the directory; documents.push({ filename: file, content })
File(name, content) == [filename |-> name, content |-> content]

FileC == <<"c", ".", "m", "d">>

Notes == <<"x", ".", "t", "x", "t">>

\* two paragraphs that do not fit in one chunk of the default size
LongText ==
    Filled(DefaultChunkSize - 1) \o <<NL, NL>> \o Filled(DefaultOverlap + 1)

\* the directories a run can find: none; one without markdown; two markdown
\* files, of two chunks and of one, with another file between; an empty file
KbDirs ==
    {[exists |-> FALSE, files |-> <<>>],
     [exists |-> TRUE, files |-> <<File(Notes, <<"a">>)>>],
     [exists |-> TRUE,
      files |-> <<File(FileA, LongText), File(Notes, <<"a">>), File(FileB, <<"b", NL>>)>>],
     [exists |-> TRUE, files |-> <<File(FileC, <<>>)>>]}

\* lines 18-33: existsSync, readdirSync filtered on '.md', readFileSync
readMarkdownFiles(dir) ==
    IF ~dir.exists THEN Thrown("Knowledgebase directory not found")
    ELSE Returned(SelectSeq(dir.files, LAMBDA f : EndsWith(f.filename, <<".", "m", "d">>)))

\* mutant: the index runs from 1
FileChunks_OneBased(doc) ==
    LET textChunks == chunkText(doc.content, DefaultChunkSize, DefaultOverlap)
    IN  [idx \in 1..Len(textChunks) |->
            [text |-> textChunks[idx], filename |-> doc.filename, chunkIndex |-> idx]]

\* lines 92-97: the chunks of one document, idx counted from 0
FileChunks(doc) ==
    LET textChunks == chunkText(doc.content, DefaultChunkSize, DefaultOverlap)
    IN  [idx \in 1..Len(textChunks) |->
            [text |-> textChunks[idx], filename |-> doc.filename, chunkIndex |-> idx - 1]]

\* lines 90-100: allChunks = allChunks.concat(chunks), document after document
RECURSIVE ChunkDocuments(_, _, _)
ChunkDocuments(docs, i, acc) ==
    IF i > Len(docs) THEN acc
    ELSE ChunkDocuments(docs, i + 1, acc \o FileChunks(docs[i]))

\* a deterministic embedder: the vector depends on the text alone
EmbeddingOf(t) ==
    IF Len(t) > DefaultChunkSize \div 2 THEN <<1, 0>>
    ELSE IF Len(t) > DefaultOverlap THEN <<1, 1>>
    ELSE IF Len(t) > 0 THEN <<0, 1>>
    ELSE <<2, 0>>

\* what the POST to /api/embed for one chunk can come to
BuildEmbedReplies(t) ==
    {[ok |-> TRUE, embedding |-> EmbeddingOf(t), error |-> NoError]}
    \cup {[ok |-> FALSE, embedding |-> <<>>, error |-> e] : e \in {Refused, ServerError}}

\* lines 46-49: { ...chunks[i], embedding }
Embedded(chunk, e) ==
    [text |-> chunk.text, filename |-> chunk.filename, chunkIndex |-> chunk.chunkIndex,
     embedding |-> e]

\* mutant: total_chunks counts the documents
Snapshot_CountsDocuments(embedded, docs, now) ==
    [state |-> "valid",
     created_at |-> now,
     chunks |-> embedded,
     metadata |-> [total_chunks |-> Len(docs),
                   files |-> [i \in 1..Len(docs) |-> docs[i].filename],
                   embedding_model |-> EmbeddingModel,
                   chunk_size |-> DefaultChunkSize,
                   chunk_overlap |-> DefaultOverlap]]

\* lines 109-121: the object that is written, as a file that can be parsed
Snapshot(embedded, docs, now) ==
    [state |-> "valid",
     created_at |-> now,
     chunks |-> embedded,
     metadata |-> [total_chunks |-> Len(embedded),
                   files |-> [i \in 1..Len(docs) |-> docs[i].filename],
                   embedding_model |-> EmbeddingModel,
                   chunk_size |-> DefaultChunkSize,
                   chunk_overlap |-> DefaultOverlap]]

\* the file between the open of writeFileSync, which empties it, and the write
Truncated == [state |-> "corrupt", chunks |-> <<>>]

NoFile == [state |-> "missing", chunks |-> <<>>]

\* a snapshot left by an earlier run over another directory
OldSnapshot ==
    Snapshot(<<Embedded(FileChunks(File(FileB, <<"a", "b">>))[1], <<0, 1>>)>>,
             <<File(FileB, <<"a", "b">>)>>, 0)

\* the chat variables a run of the script cannot touch
chatMemory ==
    <<req, hpc, vectorStore, chatEmbedding, topChunks, prompt, answer, res,
      storeLoads, embedCalls, completionCalls, failed, trace>>

\* process.exit(code): the run is over and what it left on disk is recorded
Exit(code, file) ==
    /\ bpc' = "idle"
    /\ builds' = Append(builds, [code |-> code, before |-> fileAtStart, file |-> file,
                                 dir |-> kbDir])

\* the script is started: node embed.js
BuildStart ==
    /\ bpc = "idle"
    /\ buildNo < MaxBuilds
    /\ buildNo' = buildNo + 1
    /\ clock' = clock + 1
    /\ fileAtStart' = storeFile
    /\ documents' = <<>>
    /\ allChunks' = <<>>
    /\ embeddedChunks' = <<>>
    /\ bpc' = "check"
    /\ UNCHANGED <<kbDir, builds, storeFile>>

\* lines 65-75: without Ollama or the model the script exits
BuildCheckOllama ==
    /\ bpc = "check"
    /\ \E isAvailable \in BOOLEAN :
          IF isAvailable
          THEN /\ bpc' = "read"
               /\ UNCHANGED builds
          ELSE Exit(1, storeFile)
    /\ UNCHANGED <<kbDir, buildNo, clock, documents, allChunks, embeddedChunks,
                   fileAtStart, storeFile>>

\* lines 81-87: the markdown files are read; none, or no directory, ends the run
BuildRead ==
    /\ bpc = "read"
    /\ LET out == readMarkdownFiles(kbDir)
       IN  IF out.threw
           THEN /\ Exit(1, storeFile)
                /\ UNCHANGED documents
           ELSE IF Len(out.value) = 0
           THEN /\ Exit(1, storeFile)
                /\ documents' = out.value
           ELSE /\ documents' = out.value
                /\ bpc' = "chunk"
                /\ UNCHANGED builds
    /\ UNCHANGED <<kbDir, buildNo, clock, allChunks, embeddedChunks, fileAtStart, storeFile>>

\* mutant: the chunks of the run before are kept and added to
BuildChunk_KeepsEarlier ==
    /\ bpc = "chunk"
    /\ allChunks' = ChunkDocuments(documents, 1,
                        IF fileAtStart.state = "valid" THEN
                            [i \in 1..Len(fileAtStart.chunks) |->
                                [text |-> fileAtStart.chunks[i].text,
                                 filename |-> fileAtStart.chunks[i].filename,
                                 chunkIndex |-> fileAtStart.chunks[i].chunkIndex]]
                        ELSE <<>>)
    /\ bpc' = "embed"
    /\ UNCHANGED <<kbDir, buildNo, clock, documents, embeddedChunks, fileAtStart, builds,
                   storeFile>>

\* lines 90-100: every document is chunked into a fresh list
BuildChunk ==
    /\ bpc = "chunk"
    /\ allChunks' = ChunkDocuments(documents, 1, <<>>)
    /\ bpc' = "embed"
    /\ UNCHANGED <<kbDir, buildNo, clock, documents, embeddedChunks, fileAtStart, builds,
                   storeFile>>

\* mutant: what was embedded so far is saved when a chunk fails
BuildEmbedOne_SavesOnFailure ==
    /\ bpc = "embed"
    /\ Len(embeddedChunks) < Len(allChunks)
    /\ LET chunk == allChunks[Len(embeddedChunks) + 1]
       IN  \E reply \in BuildEmbedReplies(chunk.text) :
              LET out == generateEmbedding(reply)
              IN  IF out.threw
                  THEN /\ storeFile' = Snapshot(embeddedChunks, documents, clock)
                       /\ Exit(1, storeFile')
                       /\ UNCHANGED embeddedChunks
                  ELSE /\ embeddedChunks' = Append(embeddedChunks, Embedded(chunk, out.value))
                       /\ UNCHANGED <<bpc, builds, storeFile>>
    /\ UNCHANGED <<kbDir, buildNo, clock, documents, allChunks, fileAtStart>>

\* lines 43-50 and 130-133: the next chunk is embedded; a failure ends the run
BuildEmbedOne ==
    /\ bpc = "embed"
    /\ Len(embeddedChunks) < Len(allChunks)
    /\ LET chunk == allChunks[Len(embeddedChunks) + 1]
       IN  \E reply \in BuildEmbedReplies(chunk.text) :
              LET out == generateEmbedding(reply)
              IN  IF out.threw
                  THEN /\ Exit(1, storeFile)
                       /\ UNCHANGED embeddedChunks
                  ELSE /\ embeddedChunks' = Append(embeddedChunks, Embedded(chunk, out.value))
                       /\ UNCHANGED <<bpc, builds>>
    /\ UNCHANGED <<kbDir, buildNo, clock, documents, allChunks, fileAtStart, storeFile>>

\* line 124, writeFileSync: the file is opened for writing, which empties it
BuildOpenFile ==
    /\ bpc = "embed"
    /\ Len(embeddedChunks) = Len(allChunks)
    /\ storeFile' = Truncated
    /\ bpc' = "write"
    /\ UNCHANGED <<kbDir, buildNo, clock, documents, allChunks, embeddedChunks,
                   fileAtStart, builds>>

\* line 124, writeFileSync: the serialised store is written and the file closed
BuildWriteFile ==
    /\ bpc = "write"
    /\ storeFile' = Snapshot(embeddedChunks, documents, clock)
    /\ Exit(0, storeFile')
    /\ UNCHANGED <<kbDir, buildNo, clock, documents, allChunks, embeddedChunks, fileAtStart>>

\* one chat request that passes validation, and the store file of the server
BuildChatInit ==
    /\ req = [hasBody |-> TRUE, message |-> Message("string", <<"a">>, 0)]
    /\ storeFile \in {NoFile, OldSnapshot}
    /\ hpc = "validate"
    /\ vectorStore = <<>>
    /\ chatEmbedding = <<>>
    /\ topChunks = <<>>
    /\ prompt = <<>>
    /\ answer = ""
    /\ res = <<>>
    /\ storeLoads = 0
    /\ embedCalls = 0
    /\ completionCalls = 0
    /\ failed = <<>>
    /\ trace = <<>>

BuildInit ==
    /\ kbDir \in KbDirs
    /\ bpc = "idle"
    /\ buildNo = 0
    /\ clock = 0
    /\ documents = <<>>
    /\ allChunks = <<>>
    /\ embeddedChunks = <<>>
    /\ fileAtStart = NoFile
    /\ builds = <<>>

BuildNext ==
    \/ BuildStart /\ UNCHANGED <<chunkVars, cosVars, searchVars, chatMemory, uiVars>>
    \/ BuildCheckOllama /\ UNCHANGED <<chunkVars, cosVars, searchVars, chatMemory, uiVars>>
    \/ BuildRead /\ UNCHANGED <<chunkVars, cosVars, searchVars, chatMemory, uiVars>>
    \/ BuildChunk /\ UNCHANGED <<chunkVars, cosVars, searchVars, chatMemory, uiVars>>
    \/ BuildEmbedOne /\ UNCHANGED <<chunkVars, cosVars, searchVars, chatMemory, uiVars>>
    \/ BuildOpenFile /\ UNCHANGED <<chunkVars, cosVars, searchVars, chatMemory, uiVars>>
    \/ BuildWriteFile /\ UNCHANGED <<chunkVars, cosVars, searchVars, chatMemory, uiVars>>
    \/ ChatValidate /\ UNCHANGED <<chunkVars, cosVars, searchVars, buildVars, uiVars>>
    \/ ChatLoadStore /\ UNCHANGED <<chunkVars, cosVars, searchVars, buildVars, uiVars>>
    \/ ChatEmbedCall /\ UNCHANGED <<chunkVars, cosVars, searchVars, buildVars, uiVars>>
    \/ ChatEmbedReply /\ UNCHANGED <<chunkVars, cosVars, searchVars, buildVars, uiVars>>
    \/ ChatSearch /\ UNCHANGED <<chunkVars, cosVars, searchVars, buildVars, uiVars>>
    \/ ChatBuildPrompt /\ UNCHANGED <<chunkVars, cosVars, searchVars, buildVars, uiVars>>
    \/ ChatCompleteCall /\ UNCHANGED <<chunkVars, cosVars, searchVars, buildVars, uiVars>>
    \/ ChatCompleteReply /\ UNCHANGED <<chunkVars, cosVars, searchVars, buildVars, uiVars>>
    \/ ChatRespond /\ UNCHANGED <<chunkVars, cosVars, searchVars, buildVars, uiVars>>

InitBuild == ChunkIdle /\ CosIdle /\ SearchIdle /\ BuildChatInit /\ BuildInit /\ UiIdle

SpecBuild == InitBuild /\ [][BuildNext]_vars

----------------------------------------------------------------------------
(* App: the chat page, and sendChatMessage of the api service *)

\* messages the user can send in one behaviour
MaxSends == 2

\* what the textarea can hold: nothing, white space, two messages
Inputs == {<<>>, <<SP>>, <<"a">>, <<"b", SP>>}

\* what the POST to /chat can come to: fetch rejects, or a response arrives
\* with its ok flag, a body that is JSON or not, and the fields of the body
HttpReply(rejects, ok, json, error, said) ==
    [rejects |-> rejects, ok |-> ok, json |-> json, error |-> error, answer |-> said]

NoReply == HttpReply(FALSE, FALSE, FALSE, "", "")

HttpReplies ==
    {HttpReply(TRUE, FALSE, FALSE, "", ""),
     HttpReply(FALSE, TRUE, TRUE, "", "an answer"),
     HttpReply(FALSE, TRUE, FALSE, "", ""),
     HttpReply(FALSE, FALSE, TRUE, "Failed to process chat request", ""),
     HttpReply(FALSE, FALSE, TRUE, "", ""),
     HttpReply(FALSE, FALSE, FALSE, "", "")}

\* mutant: a response that is not ok is returned like an answer
sendChatMessage_IgnoresStatus(r) ==
    IF r.rejects THEN Thrown("Failed to fetch")
    ELSE IF ~r.json THEN Thrown("Unexpected end of JSON input")
    ELSE Returned([answer |-> r.answer])

\* part_000 lines 62-83: the data of an ok response, or the error thrown
sendChatMessage(r) ==
    IF r.rejects THEN Thrown("Failed to fetch")
    ELSE IF ~r.json THEN Thrown("Unexpected end of JSON input")
    ELSE IF ~r.ok
    THEN Thrown(IF r.error # "" THEN r.error ELSE "Failed to send message")
    ELSE Returned([answer |-> r.answer])

\* lines 28-32: { text: input, isUser: true }
UserMessage(t) == [isUser |-> TRUE, text |-> t]

\* lines 41-47 and 51-55: the bubble for the answer, or for the error
ReplyMessage(out) ==
    IF out.threw THEN [isUser |-> FALSE, text |-> "Error: " \o out.message]
    ELSE [isUser |-> FALSE, text |-> out.value.answer]

\* what a render shows and what its handlers close over
Rendered(i, l) == [input |-> i, loading |-> l]

\* mutant: the page is not rendered again after the handler has run
Commit_NotRendered == view' = view

\* React renders the updates of an event handler before the next event
Commit == view' = Rendered(input', loading')

\* line 26 and lines 34-39, with the state of the render the handler is from
handleSend(v) ==
    IF Trim(v.input) = <<>> \/ v.loading
    THEN UNCHANGED <<messages, input, loading, calls>>
    ELSE /\ messages' = Append(messages, UserMessage(v.input))
         /\ input' = <<>>
         /\ loading' = TRUE
         /\ calls' = Append(calls, [message |-> v.input, state |-> "pending",
                                    reply |-> NoReply])

\* line 114: a click on the Send button, which a disabled button does not get
UiClick ==
    /\ ~(view.loading \/ Trim(view.input) = <<>>)
    /\ Len(calls) < MaxSends
    /\ handleSend(view)
    /\ Commit
    /\ UNCHANGED serverStatus

\* lines 62-67 and 110: Enter in the textarea, which is not disabled
UiEnter ==
    /\ ~view.loading
    /\ Len(calls) < MaxSends
    /\ handleSend(view)
    /\ Commit
    /\ UNCHANGED serverStatus

\* line 109: the user edits the text
UiChange ==
    /\ ~view.loading
    /\ \E t \in Inputs : t # view.input /\ input' = t
    /\ UNCHANGED <<messages, loading, serverStatus, calls>>
    /\ Commit

\* lines 13-18: the health check of the mount settles and the page is rendered
UiHealth ==
    /\ serverStatus = "null"
    /\ \E s \in {"ok", "error"} : serverStatus' = s
    /\ view' = Rendered(input, loading)
    /\ UNCHANGED <<messages, input, loading, calls>>

\* the fetch of sendChatMessage, or the reading of its body, settles
UiSettle ==
    /\ \E i \in DOMAIN calls :
          /\ calls[i].state = "pending"
          /\ \E r \in HttpReplies :
                calls' = [calls EXCEPT ![i].state = "settled", ![i].reply = r]
    /\ UNCHANGED <<messages, input, loading, serverStatus, view>>

\* mutant: loading is reset at the end of the try block, not in a finally
UiContinue_NoFinally ==
    /\ \E i \in DOMAIN calls :
          /\ calls[i].state = "settled"
          /\ messages' = Append(messages, ReplyMessage(sendChatMessage(calls[i].reply)))
          /\ calls' = [calls EXCEPT ![i].state = "done"]
          /\ loading' = IF sendChatMessage(calls[i].reply).threw THEN loading ELSE FALSE
    /\ \E now \in BOOLEAN : view' = IF now THEN Rendered(input, loading') ELSE view
    /\ UNCHANGED <<input, serverStatus>>

\* lines 39-59: handleSend goes on after the await; outside an event handler
\* React renders the updates at once or in a later task
UiContinue ==
    /\ \E i \in DOMAIN calls :
          /\ calls[i].state = "settled"
          /\ messages' = Append(messages, ReplyMessage(sendChatMessage(calls[i].reply)))
          /\ calls' = [calls EXCEPT ![i].state = "done"]
    /\ loading' = FALSE
    /\ \E now \in BOOLEAN : view' = IF now THEN Rendered(input, loading') ELSE view
    /\ UNCHANGED <<input, serverStatus>>

\* the render React had put off
UiRender ==
    /\ view # Rendered(input, loading)
    /\ view' = Rendered(input, loading)
    /\ UNCHANGED <<messages, input, loading, serverStatus, calls>>

\* the page after it is mounted
UiInit ==
    /\ messages = <<>>
    /\ input = <<>>
    /\ loading = FALSE
    /\ serverStatus = "null"
    /\ view = Rendered(<<>>, FALSE)
    /\ calls = <<>>

UiNext ==
    \/ UiClick /\ UNCHANGED <<chunkVars, cosVars, searchVars, chatVars, buildVars>>
    \/ UiEnter /\ UNCHANGED <<chunkVars, cosVars, searchVars, chatVars, buildVars>>
    \/ UiChange /\ UNCHANGED <<chunkVars, cosVars, searchVars, chatVars, buildVars>>
    \/ UiHealth /\ UNCHANGED <<chunkVars, cosVars, searchVars, chatVars, buildVars>>
    \/ UiSettle /\ UNCHANGED <<chunkVars, cosVars, searchVars, chatVars, buildVars>>
    \/ UiContinue /\ UNCHANGED <<chunkVars, cosVars, searchVars, chatVars, buildVars>>
    \/ UiRender /\ UNCHANGED <<chunkVars, cosVars, searchVars, chatVars, buildVars>>

InitUi == ChunkIdle /\ CosIdle /\ SearchIdle /\ ChatIdle /\ BuildIdle /\ UiInit

SpecUi == InitUi /\ [][UiNext]_vars

\* the event loop runs a continuation that is ready and a render that is due
SpecUiLive ==
    /\ InitUi
    /\ [][UiNext]_vars
    /\ WF_vars(UiContinue /\ UNCHANGED <<chunkVars, cosVars, searchVars, chatVars, buildVars>>)
    /\ WF_vars(UiRender /\ UNCHANGED <<chunkVars, cosVars, searchVars, chatVars, buildVars>>)

----------------------------------------------------------------------------
(* Properties of chunkText *)

\* a step of the for..of loop over the paragraphs
LoopStep == pc = "loop" /\ pidx' = pidx + 1

\* the last n characters of s (n <= Len(s))
LastChars(s, n) == SubSeq(s, Len(s) - n + 1, Len(s))

IsSubstring(p, c) ==
    \E i \in 0..(Len(c) - Len(p)) : SubSeq(c, i + 1, i + Len(p)) = p

\* every ps[i], i >= idx, lies whole in some chunk cs[k], k >= from, the
\* chunks of successive paragraphs in non-decreasing order (earliest home first)
RECURSIVE InOrderFrom(_, _, _, _)
InOrderFrom(ps, idx, cs, from) ==
    IF idx > Len(ps) THEN TRUE
    ELSE LET homes == {k \in from..Len(cs) : IsSubstring(ps[idx], cs[k])}
         IN  /\ homes # {}
             /\ InOrderFrom(ps, idx + 1, cs,
                            CHOOSE k \in homes : \A j \in homes : k <= j)

TrimAll(ps) == [i \in 1..Len(ps) |-> Trim(ps[i])]

AllParagraphsShorter == \A i \in 1..Len(paragraphs) : Len(paragraphs[i]) < chunkSize

\* C1 (as claimed): chunkText("", 2000, 200) returns no chunk at all.
C1_EmptyTextNoChunks ==
    (pc = "done" /\ text = <<>> /\ chunkSize = DefaultChunkSize
                 /\ overlap = DefaultOverlap)
        => chunks = <<>>

\* C2 (as claimed): a paragraph is appended exactly when the buffer plus the
\* paragraph plus the separator stays strictly below chunkSize, so an append
\* never takes the buffer to chunkSize or beyond.
C2_AppendIffBelowWithSeparator ==
    [][LoopStep =>
        /\ (branch' = "append") <=>
             (Len(currentChunk) + Len(paragraphs[pidx]) + Len(Separator) < chunkSize)
        /\ (branch' = "append") => Len(currentChunk') < chunkSize]_vars

\* C2 (amended): a paragraph is appended exactly when the buffer plus the
\* paragraph, the separator not counted, stays strictly below chunkSize; the
\* append adds the paragraph and the separator, so the buffer stays strictly
\* below chunkSize plus the length of the separator.
C2_AppendIffFitsWithoutSeparator ==
    [][LoopStep =>
        /\ (branch' = "append") <=>
             (Len(currentChunk) + Len(paragraphs[pidx]) < chunkSize)
        /\ (branch' = "append") =>
             /\ currentChunk' = currentChunk \o paragraphs[pidx] \o Separator
             /\ Len(currentChunk') < chunkSize + Len(Separator)]_vars

\* C2 witness: an append has taken the buffer to chunkSize or beyond
C2_Witness == branch = "append" /\ Len(currentChunk) >= chunkSize

\* C3 (as claimed): whenever a buffer is flushed, the new buffer is a seed, the
\* current paragraph and its separator, the seed being exactly the last
\* `overlap` characters of the flushed buffer when that is longer than
\* `overlap` and empty otherwise, for every overlap >= 0.
C3_FlushSeedsOverlap ==
    [][(LoopStep /\ branch' = "flush" /\ Len(currentChunk) > 0) =>
        LET seed == IF Len(currentChunk) > overlap
                    THEN LastChars(currentChunk, overlap)
                    ELSE <<>>
        IN  /\ Len(currentChunk) > overlap => Len(seed) = overlap
            /\ currentChunk' = seed \o paragraphs[pidx] \o Separator]_vars

\* C4 (as claimed): every paragraph of the input lies whole inside a returned
\* chunk, the chunks of successive paragraphs in non-decreasing order.
C4_ParagraphsWholeInOrder ==
    pc = "done" => InOrderFrom(paragraphs, 1, chunks, 1)

\* C4 (amended): every paragraph, stripped of the white space at its two ends,
\* lies whole inside a returned chunk, the chunks of successive paragraphs in
\* non-decreasing order.
C4_TrimmedParagraphsInOrder ==
    pc = "done" => InOrderFrom(TrimAll(paragraphs), 1, chunks, 1)

\* C4 witness: a call with a positive overlap that flushed, returned several
\* chunks and had a paragraph with white space at an end
C4_Witness ==
    /\ pc = "done"
    /\ overlap > 0
    /\ Len(chunks) >= 2
    /\ \E i \in 1..Len(paragraphs) :
          /\ Trim(paragraphs[i]) # paragraphs[i]
          /\ Trim(paragraphs[i]) # <<>>
    /\ \E i \in 1..Len(paragraphs) : \E k \in 1..Len(chunks) :
          paragraphs[i] # <<>> /\ chunks[k] = paragraphs[i]

\* C5 (as claimed): a paragraph at least chunkSize long is emitted whole inside
\* one chunk, and the paragraph after it is never appended to its buffer (it
\* always takes the flush branch).
C5_LongParagraphWhole ==
    /\ (branch = "append" /\ pidx > 2) => Len(paragraphs[pidx - 2]) < chunkSize
    /\ pc = "done" =>
         \A i \in 1..Len(paragraphs) :
            Len(paragraphs[i]) >= chunkSize =>
               \E k \in 1..Len(chunks) : IsSubstring(paragraphs[i], chunks[k])

\* C5 (amended): a paragraph at least chunkSize long, stripped of the white
\* space at its two ends, is emitted whole inside one chunk, and the paragraph
\* after it is never appended to its buffer (it always takes the flush branch).
C5_LongParagraphWholeTrimmed ==
    /\ (branch = "append" /\ pidx > 2) => Len(paragraphs[pidx - 2]) < chunkSize
    /\ pc = "done" =>
         \A i \in 1..Len(paragraphs) :
            Len(paragraphs[i]) >= chunkSize =>
               \E k \in 1..Len(chunks) : IsSubstring(Trim(paragraphs[i]), chunks[k])

\* C5 witness: a paragraph at least chunkSize long with a paragraph after it
C5_Witness ==
    /\ pc = "done"
    /\ overlap > 0
    /\ Len(chunks) >= 2
    /\ \E i \in 1..(Len(paragraphs) - 1) :
          /\ Len(paragraphs[i]) >= chunkSize
          /\ Len(Trim(paragraphs[i])) >= 2
          /\ paragraphs[i + 1] # <<>>

\* C6: every paragraph shorter than chunkSize and the whole text shorter than
\* chunkSize: exactly one chunk is returned.
C6_SmallTextOneChunk ==
    (pc = "done" /\ AllParagraphsShorter /\ Len(text) < chunkSize)
        => Len(chunks) = 1

\* C6 witness: a text of two non-empty paragraphs below chunkSize
C6_Witness ==
    /\ pc = "done"
    /\ AllParagraphsShorter
    /\ Len(text) < chunkSize
    /\ Len(paragraphs) >= 2
    /\ \A i \in 1..Len(paragraphs) : paragraphs[i] # <<>>

----------------------------------------------------------------------------
(* Properties of searchSimilarChunks and cosineSimilarity *)

AllEmbeddingsMatch ==
    \A k \in 1..Len(storeChunks) :
        Len(storeChunks[k].embedding) = Len(queryEmbedding)

\* the stored chunk at position k is not in the result r
Omitted(r, k) == \A i \in 1..Len(r) : r[i].chunkIndex # k - 1

C8_SortedStableTopK ==
    spc = "returned" =>
        LET r == searchOut.value
        IN  /\ \A i, j \in 1..Len(r) :
                  i < j => ~SimLess(r[i].similarity, r[j].similarity)
            /\ \A i, j \in 1..Len(r) :
                  (i < j /\ r[i].similarity = r[j].similarity)
                      => r[i].chunkIndex < r[j].chunkIndex
            /\ \A i, j \in 1..Len(r) : i # j => r[i].chunkIndex # r[j].chunkIndex
            /\ \A i \in 1..Len(r) :
                  \E k \in 1..Len(storeChunks) :
                      r[i] = Scored(storeChunks[k],
                                    Similarity(queryEmbedding,
                                               storeChunks[k].embedding).value)
            /\ Len(r) = Min(topK, Len(storeChunks))
            /\ \A k \in 1..Len(storeChunks) :
                  Omitted(r, k) =>
                      \A i \in 1..Len(r) :
                          ~SimLess(r[i].similarity,
                                   Similarity(queryEmbedding,
                                              storeChunks[k].embedding).value)

\* C8 witness: four chunks, topK = 3, the best one not first in the list, then
\* a tied pair, the least similar chunk left out
C8_Witness ==
    /\ spc = "returned"
    /\ Len(storeChunks) = 4
    /\ topK = 3
    /\ LET r == searchOut.value
       IN  /\ Len(r) = 3
           /\ SimLess(r[2].similarity, r[1].similarity)
           /\ r[2].similarity = r[3].similarity
           /\ r[2].embedding # r[3].embedding
           /\ r[1].chunkIndex > r[2].chunkIndex
           /\ \E k \in 1..4 :
                 /\ Omitted(r, k)
                 /\ SimLess(Similarity(queryEmbedding,
                                       storeChunks[k].embedding).value,
                            r[3].similarity)

\* C9: one stored embedding of another length than the query's makes the whole
\* call throw: nothing is returned, whatever the position of the chunk and
\* whatever topK.
C9_MismatchFailsWhole ==
    (spc # "call" /\ ~AllEmbeddingsMatch) =>
        /\ spc = "threw"
        /\ searchOut = Thrown("Vectors must have the same length")

\* C9 witness: the only offending chunk is the last of four and topK is 1
C9_Witness ==
    /\ spc = "threw"
    /\ Len(storeChunks) = 4
    /\ topK = 1
    /\ \A k \in 1..3 : Len(storeChunks[k].embedding) = Len(queryEmbedding)
    /\ Len(storeChunks[4].embedding) # Len(queryEmbedding)

\* C10: cosineSimilarity throws exactly when the two vectors differ in length.
C10_ThrowsIffLengthsDiffer ==
    cpc # "call" =>
        /\ (cpc = "threw") <=> (Len(vecA) # Len(vecB))
        /\ cosOut.threw <=> (Len(vecA) # Len(vecB))
        /\ cosOut.threw => cosOut = Thrown("Vectors must have the same length")

\* C10 witness: the second vector is the shorter one, and the call threw
C10_Witness ==
    /\ cpc = "threw"
    /\ Len(vecB) > 0
    /\ Len(vecA) > Len(vecB)

\* every component of v is 0 (so is the empty vector's)
AllZero(v) == \A i \in 1..Len(v) : v[i] = 0

\* C11: when a or b is an all-zero vector of the same length as the other
\* (both zero and both empty included), cosineSimilarity returns exactly 0.
C11_ZeroVectorGivesZero ==
    (cpc # "call" /\ Len(vecA) = Len(vecB) /\ (AllZero(vecA) \/ AllZero(vecB))) =>
        /\ cpc = "returned"
        /\ cosOut = Returned(Zero)

\* C11 witness: a non-zero vector against the zero vector of its length
C11_Witness ==
    /\ cpc = "returned"
    /\ Len(vecA) = 2
    /\ ~AllZero(vecA)
    /\ vecB = <<0, 0>>

\* C12: for vectors of equal length, cosineSimilarity(a, b) is the very value
\* of cosineSimilarity(b, a).
C12_Symmetric ==
    cpc = "returned" => cosOut = cosineSimilarity(vecB, vecA)

\* C12 witness: two different non-zero vectors of different norms, neither
\* orthogonal nor parallel
C12_Witness ==
    /\ cpc = "returned"
    /\ vecA # vecB
    /\ DotFrom(vecA, vecA, 1) # DotFrom(vecB, vecB, 1)
    /\ cosOut.value # Zero
    /\ cosOut.value # One

\* x is the number 1 or within 2^-51 of it: at most two steps above 1, at most
\* four of the half-size steps below
NearOne(x) ==
    /\ x.sign = 1
    /\ \/ /\ x.exp = One.exp
          /\ BigCmp(x.mant, BigAdd(One.mant, <<2>>)) <= 0
       \/ /\ x.exp = One.exp - 1
          /\ BigCmp(BigAdd(x.mant, <<4>>), BigShl(One.mant, 1)) >= 0

\* C13 (as claimed): cosineSimilarity(a, a) is 1 for every non-zero a.
C13_SelfSimilarityIsOne ==
    (cpc = "returned" /\ vecA = vecB /\ ~AllZero(vecA)) => cosOut.value = One

\* C13 (amended): cosineSimilarity(a, a) is 1 up to the rounding of the
\* square roots, the product and the division: it is within 2^-51 of 1 for
\* every non-zero a.
C13_SelfSimilarityNearOne ==
    (cpc = "returned" /\ vecA = vecB /\ ~AllZero(vecA)) => NearOne(cosOut.value)

\* C13 witness: a non-zero vector whose similarity to itself is not the number 1
C13_Witness ==
    /\ cpc = "returned"
    /\ vecA = vecB
    /\ ~AllZero(vecA)
    /\ cosOut.value # One

----------------------------------------------------------------------------
(* Properties of handleChat *)

\* the message is a string of white space, or the empty string
Blank(r) ==
    /\ r.hasBody
    /\ r.message.type = "string"
    /\ \A i \in 1..Len(r.message.chars) : r.message.chars[i] \in {SP, NL}

\* the message is a string with something else than white space in it
Sound(r) == r.hasBody /\ r.message.type = "string" /\ ~Blank(r)

\* the body is missing, the message is missing, or it is not a string
Malformed(r) == ~r.hasBody \/ r.message.type # "string"

NoExternalCall == storeLoads = 0 /\ embedCalls = 0 /\ completionCalls = 0

\* response i was sent with a status of success
Succeeded(i) == res[i].status = 200

\* C14: a request whose message is empty or white space only is answered with
\* HTTP 400, and at no time is the store loaded, generateEmbedding called or
\* generateChatCompletion called for it.
C14_BlankMessageRejected ==
    Blank(req) =>
        /\ NoExternalCall
        /\ hpc = "done" => res = <<Response(400, [error |-> "Message is required"])>>

\* C14 witness: a message of white space was answered
C14_Witness ==
    /\ hpc = "done"
    /\ Blank(req)
    /\ Len(req.message.chars) > 0
    /\ res[1].status = 400

\* C15 (as claimed): a request without body, without message or with a message
\* that is not a string is answered with one 4xx response and no external call.
C15_MalformedIsClientError ==
    (hpc = "done" /\ Malformed(req)) =>
        /\ NoExternalCall
        /\ Len(res) = 1
        /\ res[1].status \in 400..499

\* C16: with no store file, a request with a sound message is answered with
\* HTTP 500 whose details tell to run "npm run embed", and generateEmbedding
\* and generateChatCompletion are never called for it.
C16_MissingStoreIsServerError ==
    (Sound(req) /\ storeFile.state = "missing") =>
        /\ embedCalls = 0
        /\ completionCalls = 0
        /\ hpc = "done" =>
              res = <<Response(500,
                        FailureBody("Vector store not found. Please run \"npm run embed\" first."))>>

\* C16 witness: the load of a missing store was tried and the request answered
C16_Witness ==
    /\ hpc = "done"
    /\ Sound(req)
    /\ storeFile.state = "missing"
    /\ storeLoads = 1

Prefix(step) ==
    IF step = "embedding" THEN "Failed to generate embedding: "
    ELSE "Failed to generate chat completion: "

\* step i of `failed` is a failure of a collaborator
OfCollaborator(i) == failed[i].step \in {"embedding", "completion"}

\* C18 (as claimed): each collaborator is called at most once, and a failure
\* of one ends the request with HTTP 500 whose details hold the message of
\* the underlying cause.
C18_NoRetryCausePreserved ==
    /\ embedCalls <= 1
    /\ completionCalls <= 1
    /\ \A i \in 1..Len(failed) :
          OfCollaborator(i) =>
              /\ hpc = "done"
              /\ res = <<Response(500,
                            FailureBody(Prefix(failed[i].step) \o failed[i].cause.message))>>

\* C18 (amended): each collaborator is called at most once, and a failure of
\* one ends the request with HTTP 500; the details hold the message of the
\* underlying cause unless the cause is a connection failure, for which they
\* are the fixed text "Cannot connect to Ollama service at <host>. Is Ollama
\* running?".
C18_NoRetryCauseUnlessConnection ==
    /\ embedCalls <= 1
    /\ completionCalls <= 1
    /\ \A i \in 1..Len(failed) :
          OfCollaborator(i) =>
              /\ hpc = "done"
              /\ Len(res) = 1
              /\ res[1].status = 500
              /\ res[1].body.details =
                    IF \/ failed[i].cause.code = "ECONNREFUSED"
                       \/ failed[i].cause.name = "TypeError" /\ "fetch" \in failed[i].cause.mentions
                       \/ \E w \in failed[i].cause.mentions :
                             w \in {"ENOTFOUND", "ETIMEDOUT", "ECONNRESET", "EHOSTUNREACH"}
                    THEN "Cannot connect to Ollama service at http://localhost:11434. Is Ollama running?"
                    ELSE Prefix(failed[i].step) \o failed[i].cause.message

\* C18 witness: the embedding was made, the completion failed because nothing
\* listened at the host, and the request was answered
C18_Witness ==
    /\ hpc = "done"
    /\ embedCalls = 1
    /\ completionCalls = 1
    /\ Len(failed) = 1
    /\ failed[1] = Failure("completion", Refused)
    /\ res[1].status = 500

\* the steps of a request that succeeds
FullTrace ==
    <<"load", "generateEmbedding", "embedding", "search", "prompt",
      "generateChatCompletion", "completion", "response">>

\* the number of times step s is in the trace
Times(s) == Cardinality({i \in 1..Len(trace) : trace[i] = s})

\* C19: the steps of a request are taken in the order embedding, search,
\* prompt, completion, response, none twice and none skipped; the completion
\* is called only after the embedding and the search succeeded, and the
\* success response is sent only after the completion returned.
C19_StepsInOrder ==
    /\ Len(trace) <= Len(FullTrace)
    /\ trace = SubSeq(FullTrace, 1, Len(trace))
    /\ Times("generateEmbedding") = embedCalls
    /\ Times("generateChatCompletion") = completionCalls
    /\ completionCalls > 0 =>
          /\ \A i \in 1..Len(failed) : failed[i].step = "completion"
          /\ vectorStore.chunks = storeFile.chunks
          /\ Returned(topChunks) = searchSimilarChunks(chatEmbedding, vectorStore.chunks, ChatTopK)
          /\ prompt.system.context = JoinBlocks(topChunks, 1)
    /\ \A i \in 1..Len(res) : Succeeded(i) => trace = FullTrace

\* C19 witness: a request that went through every step
C19_Witness ==
    /\ hpc = "done"
    /\ trace = FullTrace
    /\ Len(topChunks) > 0
    /\ Len(res) = 1
    /\ Succeeded(1)

\* C20 (as claimed): the preview of every source is the first PreviewLen
\* characters of its chunk's text, the whole text when that is shorter.
C20_PreviewIsFirstCharacters ==
    \A i \in 1..Len(res) :
        Succeeded(i) =>
            \A k \in 1..Len(topChunks) :
                res[i].body.sources[k].preview =
                    SubSeq(topChunks[k].text, 1, Min(PreviewLen, Len(topChunks[k].text)))

\* C20 (amended): the preview of every source is the first PreviewLen
\* characters of its chunk's text, the whole text when that is shorter,
\* followed by three full stops.
C20_PreviewIsFirstCharactersAndEllipsis ==
    \A i \in 1..Len(res) :
        Succeeded(i) =>
            /\ Len(res[i].body.sources) = Len(topChunks)
            /\ \A k \in 1..Len(topChunks) :
                  res[i].body.sources[k].preview =
                      SubSeq(topChunks[k].text, 1, Min(PreviewLen, Len(topChunks[k].text)))
                          \o <<".", ".", ".">>

\* C20 witness: a success response with the preview of a text longer than
\* PreviewLen, of one as long, and of a shorter one
C20_Witness ==
    /\ hpc = "done"
    /\ Len(res) = 1
    /\ Succeeded(1)
    /\ \E k \in 1..Len(topChunks) : Len(topChunks[k].text) > PreviewLen
    /\ \E k \in 1..Len(topChunks) : Len(topChunks[k].text) = PreviewLen
    /\ \E k \in 1..Len(topChunks) : Len(topChunks[k].text) < PreviewLen

\* the label of the i-th source: its ordinal, counted from 1, and its file
LabelOf(i, filename) ==
    <<"[", "S", "o", "u", "r", "c", "e", " ", Digit(i), " ", "-", " ">>
        \o filename \o <<"]", NL>>

\* the blocks of cs[1..n], each a label and the chunk's text, with the
\* delimiter between two blocks
RECURSIVE GroundingUpTo(_, _)
GroundingUpTo(cs, n) ==
    IF n = 0 THEN <<>>
    ELSE (IF n = 1 THEN <<>>
          ELSE GroundingUpTo(cs, n - 1) \o <<NL, NL, "-", "-", "-", NL, NL>>)
             \o LabelOf(n, cs[n].filename) \o cs[n].text

\* C21: the context given to the completion holds the retrieved chunks in
\* non-increasing order of similarity, block i labelled "Source i" and with the
\* file of the chunk; the sources of the response are as many, in the same
\* order: entry i has the file and the similarity of the chunk of block i.
C21_GroundingAndSourcesAgree ==
    completionCalls > 0 =>
        /\ \A i, j \in 1..Len(topChunks) :
              i < j => ~SimLess(topChunks[i].similarity, topChunks[j].similarity)
        /\ prompt.system.context = GroundingUpTo(topChunks, Len(topChunks))
        /\ \A r \in 1..Len(res) :
              Succeeded(r) =>
                  /\ Len(res[r].body.sources) = Len(topChunks)
                  /\ \A i \in 1..Len(topChunks) :
                        /\ res[r].body.sources[i].filename = topChunks[i].filename
                        /\ res[r].body.sources[i].similarity =
                              ToFixed(topChunks[i].similarity, FixedDigits)

\* C21 witness: a success response for ChatTopK chunks of two files, not all
\* equally similar, the store holding more
C21_Witness ==
    /\ hpc = "done"
    /\ Len(res) = 1
    /\ Succeeded(1)
    /\ Len(vectorStore.chunks) > ChatTopK
    /\ Len(topChunks) = ChatTopK
    /\ topChunks[1].filename # topChunks[ChatTopK].filename
    /\ SimLess(topChunks[ChatTopK].similarity, topChunks[1].similarity)

\* C26: a chat request does not change the snapshot it loaded (no chunk gets
\* a similarity field, the chunks are not put in another order) and does not
\* write the store file
C26_SnapshotNotMutated ==
    [][/\ storeFile' = storeFile
       /\ hpc # "load" => vectorStore' = vectorStore
       /\ hpc' \notin {"validate", "load", "embed", "awaitEmbedding", "search"}
             /\ Len(topChunks') > 0
             => /\ vectorStore'.chunks = storeFile.chunks
                /\ \A i \in DOMAIN vectorStore'.chunks :
                      "similarity" \notin DOMAIN vectorStore'.chunks[i]]_vars

\* a request was answered from chunks that the search put in another order
\* than the store has them in, and the store still has its own order
C26_Witness ==
    /\ hpc = "done"
    /\ Len(res) = 1
    /\ Succeeded(1)
    /\ Len(topChunks) > 1
    /\ topChunks[1].text # vectorStore.chunks[1].text
    /\ vectorStore.chunks = storeFile.chunks

----------------------------------------------------------------------------
(* Properties of createVectorStore *)

\* the runs of the script that reached the end and wrote the file
Written == {i \in DOMAIN builds : builds[i].code = 0}

\* C22: every snapshot written by a build counts its chunks in
\* metadata.total_chunks, and every chunk record in it carries an embedding
C22_CountAndEmbeddings ==
    \A i \in Written :
        LET file == builds[i].file
        IN  /\ file.state = "valid"
            /\ file.metadata.total_chunks = Len(file.chunks)
            /\ \A k \in DOMAIN file.chunks :
                  /\ "embedding" \in DOMAIN file.chunks[k]
                  /\ Len(file.chunks[k].embedding) > 0

\* a snapshot of three chunks out of two documents has been written
C22_Witness ==
    \E i \in Written :
        /\ Len(builds[i].file.chunks) = 3
        /\ Len(builds[i].file.metadata.files) = 2
        /\ storeFile = builds[i].file

\* C23: a chat request that loads the store while a rebuild over an earlier
\* snapshot is running gets a whole snapshot, the earlier one or the new one
C23_LoadSeesWholeSnapshot ==
    [][(hpc = "load" /\ hpc' # "load" /\ bpc # "idle" /\ fileAtStart.state = "valid")
          => /\ storeFile.state = "valid"
             /\ hpc' = "embed"
             /\ vectorStore'.chunks = storeFile.chunks]_vars

\* C24: two runs of the script over the same documents, with the same model
\* and a deterministic embedder, write the same chunks in the same order and
\* the same metadata, whatever the file held before the run
C24_RebuildIsIdempotent ==
    \A i, j \in Written :
        builds[i].dir = builds[j].dir
            => /\ builds[i].file.chunks = builds[j].file.chunks
               /\ builds[i].file.metadata = builds[j].file.metadata

\* the script ran twice to the end, over an earlier snapshot, and the two
\* files differ in created_at only
C24_Witness ==
    /\ Len(builds) = 2
    /\ Written = {1, 2}
    /\ builds[1].before = OldSnapshot
    /\ builds[2].before = builds[1].file
    /\ Len(builds[2].file.chunks) = 3
    /\ builds[1].file.created_at # builds[2].file.created_at

\* the markdown files of a directory, in the order they are read
MarkdownOf(dir) == SelectSeq(dir.files, LAMBDA f : EndsWith(f.filename, <<".", "m", "d">>))

\* the place of a file name among the documents
DocIndex(docs, name) == CHOOSE i \in DOMAIN docs : docs[i].filename = name

\* C25: in a written snapshot the chunks of one file are contiguous, the files
\* follow each other in the order they were read, the chunks of a file are the
\* chunker's output in its order with chunkIndex 0..n-1, and every embedding
\* is the one computed for the text of its own chunk
C25_ChunkOrderAndAlignment ==
    \A b \in Written :
        LET cs == builds[b].file.chunks
            docs == MarkdownOf(builds[b].dir)
        IN  /\ \A i, j \in DOMAIN cs :
                  i < j => DocIndex(docs, cs[i].filename) <= DocIndex(docs, cs[j].filename)
            /\ \A d \in DOMAIN docs :
                  LET own == SelectSeq(cs, LAMBDA c : c.filename = docs[d].filename)
                      texts == chunkText(docs[d].content, DefaultChunkSize, DefaultOverlap)
                  IN  /\ Len(own) = Len(texts)
                      /\ \A k \in DOMAIN own :
                            /\ own[k].chunkIndex = k - 1
                            /\ own[k].text = texts[k]
            /\ \A i \in DOMAIN cs : cs[i].embedding = EmbeddingOf(cs[i].text)

\* a snapshot with two chunks of one file, then one of the next, was written,
\* and its three embeddings differ
C25_Witness ==
    \E b \in Written :
        LET cs == builds[b].file.chunks
        IN  /\ Len(cs) = 3
            /\ <<cs[1].filename, cs[2].filename, cs[3].filename>> = <<FileA, FileA, FileB>>
            /\ <<cs[1].chunkIndex, cs[2].chunkIndex, cs[3].chunkIndex>> = <<0, 1, 0>>
            /\ Cardinality({cs[i].embedding : i \in 1..3}) = 3

\* the runs of the script that ended with process.exit(1)
Aborted == {i \in DOMAIN builds : builds[i].code # 0}

\* C27: a run that fails before the save (no Ollama or model, no directory
\* or no markdown file, an embedding that fails for any chunk) leaves the
\* store file as it was; while a run has not reached the save the file is
\* the one found at its start
C27_FailedBuildLeavesFile ==
    /\ \A i \in Aborted : builds[i].file = builds[i].before
    /\ bpc \in {"check", "read", "chunk", "embed"} => storeFile = fileAtStart

\* a run over an earlier snapshot failed at its second chunk, after the
\* first had been embedded
C27_Witness ==
    /\ bpc = "idle"
    /\ Len(builds) > 0
    /\ Len(builds) \in Aborted
    /\ Len(allChunks) = 3
    /\ Len(embeddedChunks) = 1
    /\ fileAtStart = OldSnapshot
    /\ storeFile = OldSnapshot

----------------------------------------------------------------------------
(* The bound on the length of a chunk *)

\* C28: for every chunkSize > 0 and overlap >= 0, when every paragraph of the
\* text is shorter than chunkSize, every returned chunk is shorter than
\* chunkSize + overlap
C28_ChunkLengthBounded ==
    (pc = "done" /\ chunkSize > 0 /\ overlap >= 0 /\ AllParagraphsShorter)
        => \A i \in 1..Len(chunks) : Len(chunks[i]) < chunkSize + overlap

----------------------------------------------------------------------------
(* Properties of the chat page *)

\* the calls of sendChatMessage whose handleSend has not finished
InFlight == {i \in DOMAIN calls : calls[i].state # "done"}

\* C29: at most one chat request is in flight at any time, and handleSend
\* sends a request only when every earlier call has settled and been handled
C29_OneRequestInFlight ==
    [][/\ Cardinality(InFlight') <= 1
       /\ Len(calls') > Len(calls) => InFlight = {}]_vars

\* a second message was sent after the first was answered, and is in flight
C29_Witness ==
    /\ Len(calls) = 2
    /\ calls[1].state = "done"
    /\ calls[2].state = "pending"
    /\ loading
    /\ view.loading

\* the request of a call came back with an answer
Answered(r) == ~r.rejects /\ r.ok /\ r.json

\* the bubbles that report a failure
ErrorBubbles ==
    {"Error: Failed to fetch", "Error: Unexpected end of JSON input",
     "Error: Failed to send message", "Error: Failed to process chat request"}

\* every call has its user message, and, once handled, one reply after it
Paired ==
    /\ Len(messages) = Len(calls) + Cardinality({i \in DOMAIN calls : calls[i].state = "done"})
    /\ \A i \in DOMAIN calls :
          /\ messages[2 * i - 1] = UserMessage(calls[i].message)
          /\ calls[i].state = "done" =>
                /\ ~messages[2 * i].isUser
                /\ IF Answered(calls[i].reply)
                   THEN messages[2 * i].text = calls[i].reply.answer
                   ELSE messages[2 * i].text \in ErrorBubbles

\* C30: every accepted send appends the user message; once its request has
\* settled it is followed by exactly one reply, the answer or an 'Error: ...'
\* message, and loading is reset to false and the input enabled again
C30_SendIsAnswered ==
    /\ []Paired
    /\ \A i \in 1..MaxSends :
          (Len(calls) >= i /\ calls[i].state = "settled")
              ~> (Len(calls) >= i /\ calls[i].state = "done" /\ ~loading /\ ~view.loading)

\* two sends were handled, one with an answer and one with an error, and the
\* input is enabled again
C30_Witness ==
    /\ Len(calls) = 2
    /\ calls[1].state = "done"
    /\ calls[2].state = "done"
    /\ Answered(calls[1].reply)
    /\ ~Answered(calls[2].reply)
    /\ Len(messages) = 4
    /\ messages[4].text \in ErrorBubbles
    /\ ~loading
    /\ ~view.loading

====
